---- MODULE Spec2Model ----
(***************************************************************************)
(* Model of the fiwb-backend chat pipeline: intent classification, query   *)
(* rewriting, the six-partition retrieval fan-out, grounding injection,    *)
(* prompt composition, streaming and the post-stream memory synthesis.     *)
(* Strings of the source stay strings; Python None is the string Null.     *)
(***************************************************************************)
EXTENDS Integers, Sequences, FiniteSets, TLC

VARIABLES
    pc,            \* position of the request in chat_stream / generate / finalize_stream
    req,           \* the form fields of the request being served
    q_type,        \* generate: effective intent (chat.py:186)
    rc_material,   \* material_id argument handed to retrieve_context (chat.py:193/196)
    search_query,  \* retrieve_context: the contextualized search key
    outcome,       \* per partition task of the gather: how its search ended
    results,       \* per partition task: the value (or exception) the task produced
    search_log,    \* calls of SupermemoryClient.search issued so far
    llm_calls,     \* chat-completion calls made so far, by caller
    usage,         \* UsageTracker ledger entries written so far
    c_data,        \* generate: the retrieved context dictionary
    prompt_args,   \* the arguments handed to PromptArchitect.build_prompt
    store,         \* documents held by the Supermemory document store
    materials,     \* rows of the relational Material table
    sm_api_key,    \* settings.SUPERMEMORY_API_KEY is configured
    sm_writes,     \* calls of SupermemoryClient.add_document so far, with the requests sent
    frames,        \* generate: the frames yielded to the client so far
    final_sources, \* generate: the source cards built from the context
    prompt_messages, \* generate: the messages build_prompt returned
    full_response, \* generate: the tokens received from the completion
    background,    \* background_tasks: the tasks added so far
    chat_messages, \* the ChatMessage rows of the thread
    triage,        \* classify_query: how the call ended and the label returned
    sm_posts,      \* per partition task: the bodies POSTed to /v3/search
    threads,       \* the ChatThread rows
    http_response, \* what the endpoint answered to the request being served
    users,         \* the User rows
    courses,       \* the Course rows
    user_courses   \* the association table of users and courses

vars == <<pc, req, q_type, rc_material, search_query, outcome, results,
          search_log, llm_calls, usage, c_data, prompt_args, store,
          materials, sm_api_key, sm_writes, frames, final_sources,
          prompt_messages, full_response, background, chat_messages,
          triage, sm_posts, threads, http_response, users,
          courses, user_courses>>

Null == "null"

----------------------------------------------------------------------------
(* Bounds of the model.                                                    *)

\* searches of one fan-out whose HTTP exchange fails (exception or non-200)
MaxFailures == 1

\* turns in the request's short-term history
MaxHistory == 1

\* course documents of the stores prompt composition is checked over
MaxCourseDocs == 16

\* turns of the histories prompt composition is checked over
MaxTurns == 12

\* requests of one add_document call the store answers with 429
MaxRateLimited == 3

\* client.py:41: max_retries
MaxRetries == 3

----------------------------------------------------------------------------
(* String helpers, computed as Python computes them.                       *)

\* str.startswith
StartsWith(s, p) == Len(s) >= Len(p) /\ SubSeq(s, 1, Len(p)) = p

\* str.replace(old, "") : every non-overlapping occurrence, left to right
RECURSIVE RemoveAll(_, _)
RemoveAll(s, old) ==
    IF Len(s) < Len(old) THEN s
    ELSE IF SubSeq(s, 1, Len(old)) = old
         THEN RemoveAll(SubSeq(s, Len(old) + 1, Len(s)), old)
         ELSE SubSeq(s, 1, 1) \o RemoveAll(SubSeq(s, 2, Len(s)), old)

\* the characters of the class [a-zA-Z0-9_-] that occur in the model's ids
IdChars ==
    {"a","b","c","d","e","f","g","h","i","j","k","l","m","n","o","p","q",
     "r","s","t","u","v","w","x","y","z","A","B","C","D","E","F","G","H",
     "I","J","K","L","M","N","O","P","Q","R","S","T","U","V","W","X","Y",
     "Z","0","1","2","3","4","5","6","7","8","9","_","-"}

\* {25,} of the Drive-id pattern
DriveIdMinLen == 25

\* length of the maximal run of class characters that starts at position i
RECURSIVE RunLen(_, _)
RunLen(s, i) ==
    IF i > Len(s) \/ SubSeq(s, i, i) \notin IdChars THEN 0
    ELSE 1 + RunLen(s, i + 1)

\* re.search(r'([a-zA-Z0-9_-]{25,})', s).group(1), or Null without a match:
\* the leftmost position where a run of at least 25 class characters starts,
\* matched greedily to the end of the run
RECURSIVE DriveIdFrom(_, _)
DriveIdFrom(s, i) ==
    IF i > Len(s) THEN Null
    ELSE IF RunLen(s, i) >= DriveIdMinLen
         THEN SubSeq(s, i, i + RunLen(s, i) - 1)
         ELSE DriveIdFrom(s, i + 1)

DriveIdMatch(s) == DriveIdFrom(s, 1)

\* the whitespace characters that occur in the model's strings
Whitespace == {" ", "\n", "\t"}

\* str.strip(): whitespace at both ends is dropped
RECURSIVE LStrip(_)
LStrip(s) ==
    IF Len(s) > 0 /\ SubSeq(s, 1, 1) \in Whitespace
    THEN LStrip(SubSeq(s, 2, Len(s)))
    ELSE s

RECURSIVE RStrip(_)
RStrip(s) ==
    IF Len(s) > 0 /\ SubSeq(s, Len(s), Len(s)) \in Whitespace
    THEN RStrip(SubSeq(s, 1, Len(s) - 1))
    ELSE s

Strip(s) == RStrip(LStrip(s))

\* the elements of a sequence / a set as a sequence in a fixed order
SeqToSet(s) == {s[i] : i \in 1..Len(s)}

RECURSIVE Concat(_)
Concat(ss) == IF ss = <<>> THEN <<>> ELSE Head(ss) \o Concat(Tail(ss))

Take(s, n) == SubSeq(s, 1, IF Len(s) < n THEN Len(s) ELSE n)

\* str(n) for a natural number
RECURSIVE Str(_)
Str(n) ==
    LET Digit == << "0", "1", "2", "3", "4", "5", "6", "7", "8", "9" >>
    IN  IF n < Len(Digit) THEN Digit[n + 1]
        ELSE Str(n \div Len(Digit)) \o Digit[(n % Len(Digit)) + 1]

----------------------------------------------------------------------------
(* Python dictionaries: a record holds exactly the keys that are present.  *)

\* dict.get(k): Null when the key is absent
Get(d, k) == IF k \in DOMAIN d THEN d[k] ELSE Null

\* dict.get(k) is truthy
Has(d, k) == Get(d, k) \notin {Null, ""}

\* {**a, **b}: the keys of both, b wins
Merge(a, b) ==
    [k \in DOMAIN a \cup DOMAIN b |-> IF k \in DOMAIN b THEN b[k] ELSE a[k]]

\* d[k] = v on a copy of d
Put(d, k, v) == [x \in DOMAIN d \cup {k} |-> IF x = k THEN v ELSE d[x]]

----------------------------------------------------------------------------
(* The world the requests run in.                                          *)

UserA == "a@uni.edu"
UserB == "b@uni.edu"
Users == {UserA, UserB}

\* a Drive file id: 27 characters of the class [a-zA-Z0-9_-]
DriveId == "1AbCdEfGhIjKlMnOpQrStUvWxYz"

MemoryType == "enhanced_memory"

\* Rows of the Material table (models.py Material).  attachments is the
\* stored JSON text: json_ok tells whether json.loads accepts it, items is
\* the list it parses to.
MaterialRows ==
    { [id |-> "m1", user_id |-> UserA, course_id |-> "c1",
       title |-> "Lecture 3", content |-> "lecture three text",
       type |-> "material", source_link |-> Null,
       attachments |-> [json_ok |-> TRUE,
                        items |-> << [id |-> "f1"], [title |-> "untitled"] >>]],
      [id |-> "f1", user_id |-> UserB, course_id |-> "c1",
       title |-> "Private notes", content |-> "notes of user b",
       type |-> "attachment", source_link |-> Null,
       attachments |-> [json_ok |-> TRUE, items |-> << >>]],
      [id |-> "ann_att_f1", user_id |-> UserA, course_id |-> "c1",
       title |-> "Slides", content |-> "slides text",
       type |-> "announcement_drive_attachment", source_link |-> "link-f1",
       attachments |-> [json_ok |-> TRUE, items |-> << >>]],
      [id |-> DriveId, user_id |-> UserA, course_id |-> "GOOGLE_DRIVE",
       title |-> "Thesis draft", content |-> "drive file text",
       type |-> "drive_file", source_link |-> "link-drive",
       attachments |-> [json_ok |-> TRUE, items |-> << [id |-> DriveId] >>]],
      [id |-> "m2", user_id |-> UserB, course_id |-> "c1",
       title |-> "Lecture 5", content |-> "lecture five text",
       type |-> "material", source_link |-> Null,
       attachments |-> [json_ok |-> FALSE, items |-> << >>]],
      [id |-> "ann_n1", user_id |-> UserA, course_id |-> "c1",
       title |-> "Exam moved", content |-> "announcement text",
       type |-> "announcement", source_link |-> Null,
       attachments |-> [json_ok |-> TRUE, items |-> << [id |-> "g1"] >>]],
      [id |-> "ann_att_g1", user_id |-> UserA, course_id |-> "c1",
       title |-> "Room plan", content |-> "room plan text",
       type |-> "announcement_drive_attachment", source_link |-> "link-g1",
       attachments |-> [json_ok |-> TRUE, items |-> << >>]],
      [id |-> "drive_file_e1", user_id |-> UserB, course_id |-> "GOOGLE_DRIVE",
       title |-> "Empty scan", content |-> "",
       type |-> "drive_file", source_link |-> Null,
       attachments |-> [json_ok |-> TRUE, items |-> << [file_id |-> "m2"] >>]] }

\* Documents of the store as the writers of the repository index them.  A
\* document with chunks is returned in the grouped format, one without in
\* the flat format.
SeedDocs ==
    { [documentId |-> "d1", content |-> "",
       metadata |-> [user_id |-> UserA, type |-> "material",
                     source_id |-> "m1", course_id |-> "c1",
                     title |-> "Lecture 3"],
       chunks |-> << [content |-> "recursion", metadata |-> [page |-> "1"]],
                     [content |-> "base case",
                      metadata |-> [page |-> "2", title |-> "Slide 2"]] >>],
      [documentId |-> "d2", content |-> "slides chunk",
       metadata |-> [user_id |-> UserA,
                     type |-> "announcement_drive_attachment",
                     source_id |-> "ann_att_" \o DriveId, course_id |-> "c2",
                     title |-> "Slides", parent_announcement_id |-> "n1"],
       chunks |-> << >>],
      [documentId |-> "d3", content |-> "prefers examples",
       metadata |-> [user_id |-> UserA, type |-> MemoryType,
                     interaction_type |-> "question"],
       chunks |-> << >>],
      [documentId |-> "d4", content |-> "mail about the exam",
       metadata |-> [user_id |-> UserA, type |-> "assistant_knowledge",
                     source |-> "gmail"],
       chunks |-> << >>],
      [documentId |-> "d5", content |-> "uploaded pdf",
       metadata |-> [user_id |-> UserA, type |-> "chat_attachment",
                     thread_id |-> "t0"],
       chunks |-> << >>],
      [documentId |-> "d6", content |-> "profile of a",
       metadata |-> [user_id |-> UserA, type |-> "user_profile"],
       chunks |-> << >>],
      [documentId |-> "d7", content |-> "",
       metadata |-> [user_id |-> UserB, type |-> "material",
                     source_id |-> "m2", course_id |-> "c1",
                     title |-> "Lecture 5"],
       chunks |-> << [content |-> "iteration", metadata |-> [page |-> "1"]] >>],
      [documentId |-> "d8", content |-> "likes proofs",
       metadata |-> [user_id |-> UserB, type |-> MemoryType,
                     interaction_type |-> "review"],
       chunks |-> << >>],
      [documentId |-> "d9", content |-> "profile of b",
       metadata |-> [user_id |-> UserB, type |-> "user_profile"],
       chunks |-> << >>],
      [documentId |-> "d10", content |-> "announcement text",
       metadata |-> [user_id |-> UserA, type |-> "announcement",
                     source_id |-> "ann_n1", course_id |-> "c1",
                     title |-> "Algorithms: Announcement"],
       chunks |-> << >>] }

----------------------------------------------------------------------------
(* Filters of retrieve_context.  A condition is {"key", "value", "negate"};*)
(* an {"OR": [...]} block is the condition with key "OR" and its           *)
(* alternatives in any.                                                    *)

Cond(k, v, n) == [key |-> k, value |-> v, negate |-> n, any |-> << >>]

OrBlock(conds) == [key |-> "OR", value |-> Null, negate |-> FALSE, any |-> conds]

\* CourseFilters without the exclusion of the memory type
CourseFiltersAnyType(user, course_filter) ==
    << Cond("user_id", user, FALSE) >>
    \o (IF course_filter \notin {Null, ""}
        THEN << Cond("course_id", course_filter, FALSE) >> ELSE << >>)

CourseFilters(user, course_filter) ==
    << Cond("user_id", user, FALSE), Cond("type", MemoryType, TRUE) >>
    \o (IF course_filter \notin {Null, ""}
        THEN << Cond("course_id", course_filter, FALSE) >> ELSE << >>)

MemoryFilters(user) ==
    << Cond("user_id", user, FALSE), Cond("type", MemoryType, FALSE) >>

AssistantFilters(user) ==
    << Cond("user_id", user, FALSE), Cond("type", "assistant_knowledge", FALSE) >>

ChatFilters(user) ==
    << Cond("user_id", user, FALSE), Cond("type", "chat_attachment", FALSE) >>

ProfileFilters(user) ==
    << Cond("user_id", user, FALSE), Cond("type", "user_profile", FALSE) >>

\* OrConditions with the exact scope id only
OrConditionsExactOnly(material_id) ==
    << Cond("source_id", material_id, FALSE) >>

\* the OR block of the focused search
OrConditions(material_id) ==
    LET did == DriveIdMatch(material_id)
        ann_id_only == IF StartsWith(material_id, "ann_")
                       THEN RemoveAll(material_id, "ann_") ELSE Null
    IN  << Cond("source_id", material_id, FALSE) >>
        \o (IF did # Null
            THEN << Cond("source_id", did, FALSE),
                    Cond("source_id", "ann_att_" \o did, FALSE) >>
            ELSE << >>)
        \o (IF ann_id_only \notin {Null, ""}
            THEN << Cond("parent_announcement_id", ann_id_only, FALSE) >>
            ELSE << >>)

\* FocusedFilters without the user condition
FocusedFiltersAnyUser(user, material_id) ==
    IF material_id \notin {Null, ""}
    THEN << OrBlock(OrConditions(material_id)) >>
    ELSE << >>

FocusedFilters(user, material_id) ==
    IF material_id \notin {Null, ""}
    THEN << Cond("user_id", user, FALSE), OrBlock(OrConditions(material_id)) >>
    ELSE << >>

\* the tasks of the gather, in list order
Tasks == << "course", "focused", "memory", "assistant", "chat", "profile" >>

TaskSet == SeqToSet(Tasks)

ProfileQuery == "User learning style preferences personal context assistant profile"

CourseLimit == 15
FocusedLimit == 25
PartitionLimit == 5
ProfileLimit == 3

\* SearchCall with the memory search keyed by the profile query
SearchCallStaleKey(t, user, sq, course_filter, material_id) ==
    CASE t = "course" ->
           [task |-> t, query |-> sq, limit |-> CourseLimit,
            filters |-> [AND |-> CourseFilters(user, course_filter)]]
      [] t = "focused" ->
           [task |-> t, query |-> sq, limit |-> FocusedLimit,
            filters |-> [AND |-> FocusedFilters(user, material_id)]]
      [] t = "memory" ->
           [task |-> t, query |-> ProfileQuery, limit |-> PartitionLimit,
            filters |-> [AND |-> MemoryFilters(user)]]
      [] t = "assistant" ->
           [task |-> t, query |-> sq, limit |-> PartitionLimit,
            filters |-> [AND |-> AssistantFilters(user)]]
      [] t = "chat" ->
           [task |-> t, query |-> sq, limit |-> PartitionLimit,
            filters |-> [AND |-> ChatFilters(user)]]
      [] t = "profile" ->
           [task |-> t, query |-> ProfileQuery, limit |-> ProfileLimit,
            filters |-> [AND |-> ProfileFilters(user)]]

\* the arguments of the search call of task t
SearchCall(t, user, sq, course_filter, material_id) ==
    CASE t = "course" ->
           [task |-> t, query |-> sq, limit |-> CourseLimit,
            filters |-> [AND |-> CourseFilters(user, course_filter)]]
      [] t = "focused" ->
           [task |-> t, query |-> sq, limit |-> FocusedLimit,
            filters |-> [AND |-> FocusedFilters(user, material_id)]]
      [] t = "memory" ->
           [task |-> t, query |-> sq, limit |-> PartitionLimit,
            filters |-> [AND |-> MemoryFilters(user)]]
      [] t = "assistant" ->
           [task |-> t, query |-> sq, limit |-> PartitionLimit,
            filters |-> [AND |-> AssistantFilters(user)]]
      [] t = "chat" ->
           [task |-> t, query |-> sq, limit |-> PartitionLimit,
            filters |-> [AND |-> ChatFilters(user)]]
      [] t = "profile" ->
           [task |-> t, query |-> ProfileQuery, limit |-> ProfileLimit,
            filters |-> [AND |-> ProfileFilters(user)]]

\* IsSearched with the memory search issued for every intent
IsSearchedMemoryAlways(t, query_type, material_id) ==
    CASE t = "focused" -> material_id \notin {Null, ""}
      [] t = "profile" -> TRUE
      [] t = "memory"  -> TRUE
      [] OTHER -> query_type # "general_chat"

\* the task list of retrieve_context: TRUE where a search is issued, FALSE
\* where skip() stands in
IsSearched(t, query_type, material_id) ==
    CASE t = "focused" -> material_id \notin {Null, ""}
      [] t = "profile" -> TRUE
      [] OTHER -> query_type # "general_chat"

----------------------------------------------------------------------------
(* The document store: it returns the stored documents that satisfy the    *)
(* filter tree, in stored order, at most limit of them.                    *)

LeafHolds(meta, c) == (Get(meta, c.key) = c.value) # c.negate

CondHolds(meta, c) ==
    IF c.key = "OR"
    THEN \E i \in 1..Len(c.any) : LeafHolds(meta, c.any[i])
    ELSE LeafHolds(meta, c)

FilterHolds(meta, filters) ==
    \A i \in 1..Len(filters.AND) : CondHolds(meta, filters.AND[i])

StoreResponse(docs, call) ==
    [results |->
        Take(SelectSeq(docs, LAMBDA d : FilterHolds(d.metadata, call.filters)),
             call.limit)]

EmptyResponse == [results |-> << >>]

\* how the POST of one search can end: status 200, another status, an
\* exception
HttpOutcomes == {"200", "401", "429", "500", "exception"}

\* how the POSTs of the fan-out end in the pipeline: a non-200 answer leaves
\* search by the same return as a caught exception
FanOutOutcomes == {"200", "exception"}

\* a task of the gather ends with a value or with an exception
Returned(v) == [raised |-> FALSE, value |-> v]
Raised == [raised |-> TRUE, value |-> EmptyResponse]

\* Search without the try/except around the POST
SearchUnguarded(has_key, docs, call, http) ==
    IF ~has_key THEN Returned(EmptyResponse)
    ELSE CASE http = "exception" -> Raised
           [] http = "200"       -> Returned(StoreResponse(docs, call))
           [] OTHER              -> Returned(EmptyResponse)

\* SupermemoryClient.search: what the call gives back for the outcome of its
\* POST; has_key is settings.SUPERMEMORY_API_KEY
Search(has_key, docs, call, http) ==
    IF ~has_key THEN Returned(EmptyResponse)
    ELSE CASE http = "exception" -> Returned(EmptyResponse)
           [] http = "200"       -> Returned(StoreResponse(docs, call))
           [] OTHER              -> Returned(EmptyResponse)

\* search that sends its request a second time
SearchPostsAgain(has_key, call) ==
    IF has_key
    THEN LET body == [q |-> IF call.query # Null /\ Strip(call.query) # ""
                            THEN Strip(call.query) ELSE "*",
                      limit |-> call.limit, filters |-> call.filters]
         IN  << body, body >>
    ELSE << >>

\* client.py:92-97: the bodies search POSTs, one when the key is configured
SearchPosts(has_key, call) ==
    IF has_key
    THEN << [q |-> IF call.query # Null /\ Strip(call.query) # ""
                   THEN Strip(call.query) ELSE "*",
             limit |-> call.limit, filters |-> call.filters] >>
    ELSE << >>

\* flatten_v3 for one item of the result list
\* flatten_v3 for one item, the chunk-level metadata written last
FlattenItemChunkWins(item) ==
    IF Len(item.chunks) > 0
    THEN [i \in 1..Len(item.chunks) |->
            [content  |-> item.chunks[i].content,
             metadata |-> Put(Merge(item.metadata, item.chunks[i].metadata),
                              "documentId", item.documentId)]]
    ELSE << [content  |-> item.content,
             metadata |-> Put(item.metadata, "documentId", item.documentId)] >>

FlattenItem(item) ==
    IF Len(item.chunks) > 0
    THEN [i \in 1..Len(item.chunks) |->
            [content  |-> item.chunks[i].content,
             metadata |-> Put(Merge(item.chunks[i].metadata, item.metadata),
                              "documentId", item.documentId)]]
    ELSE << [content  |-> item.content,
             metadata |-> Put(item.metadata, "documentId", item.documentId)] >>

flatten_v3(res) ==
    Concat([i \in 1..Len(res.results) |-> FlattenItem(res.results[i])])

----------------------------------------------------------------------------
(* Requests.                                                               *)

Messages == {"and singly linked?"}

Turn == [role |-> "user", content |-> "explain doubly linked lists"]

\* the history form field: JSON text that parses to a list of turns (json_ok)
\* or does not parse
RECURSIVE TurnSeqs(_)
TurnSeqs(n) ==
    IF n = 0 THEN {<< >>}
    ELSE TurnSeqs(n - 1) \cup {Append(h, Turn) : h \in TurnSeqs(n - 1)}

Histories ==
    {[json_ok |-> TRUE, turns |-> h] : h \in TurnSeqs(MaxHistory)}
    \cup {[json_ok |-> FALSE, turns |-> << >>]}

FormQueryTypes == {Null, "general_chat", "notebook_analysis"}

\* the labels classification answers with in the model
TriageLabels == {"academic_question", "general_chat"}

\* how the completion call of classify_query can end: no OpenAI key is
\* configured and no call is made, the call raises, the answer carries no
\* content, the answer carries the text
Answered(text) == [kind |-> "content", text |-> text]

TriageOutcomes ==
    {[kind |-> k, text |-> Null] : k \in {"no_key", "raises", "no_content"}}
    \cup {Answered(text) : text \in
             {"academic_question", "deadline_lookup", "general_chat",
              " general_chat\n", "Academic_Question", "homework", "",
              "The category is general_chat"}}

\* classify_query with every failure answered by academic_question
classify_query_retrieving(o) ==
    IF o.kind = "content"
       /\ Strip(o.text) \in {"academic_question", "deadline_lookup",
                              "general_chat"}
    THEN Strip(o.text) ELSE "academic_question"

\* triage_agent.py:19-51: the label classify_query returns; a missing key
\* returns at line 23, an exception of the call or of .strip() on a missing
\* content is caught at line 49
classify_query(o) ==
    IF o.kind # "content" THEN "general_chat"
    ELSE LET category == Strip(o.text)
         IN  IF category \in {"academic_question", "deadline_lookup",
                               "general_chat"}
             THEN category ELSE "academic_question"

\* the record of one classification
Triaged(o) == [outcome |-> o, label |-> classify_query(o)]

NoTriage == [outcome |-> [kind |-> "none", text |-> Null], label |-> Null]

CourseIds == {Null, "c1"}

MaterialIds == {Null, "m1", "m2", "n1", "ann_n1", DriveId}

\* what the rewriting model can answer
RewriteAnswers == {" singly linked list "}

\* the requests of the pipeline carry no pasted text and no upload
Requests ==
    [user : Users, message : Messages, history : Histories,
     query_type : FormQueryTypes, course_id : CourseIds,
     material_id : MaterialIds, attachment_text : {Null},
     file_type : {Null}]

NoRequest ==
    [user |-> Null, message |-> Null,
     history |-> [json_ok |-> TRUE, turns |-> << >>],
     query_type |-> Null, course_id |-> Null, material_id |-> Null,
     attachment_text |-> Null, file_type |-> Null]

ThreadId == "thread-1"

\* a ChatMessage row; sources is the JSON column, NULL or the cards it holds
ChatMessage(role, content, cards) ==
    [thread_id |-> ThreadId, role |-> role, content |-> content,
     sources |-> [is_null |-> cards = << >>, cards |-> cards]]

\* chat.py:125: the title of a thread is the head of its first message
TitleCap == 40

\* a ChatThread row; user_id is the owner, named by the email of the User
\* row, updated_at a logical time
ThreadRow(id, user, message, mat_id) ==
    [id |-> id, user_id |-> user, title |-> Take(message, TitleCap),
     material_id |-> mat_id, updated_at |-> 0]

ThreadIds(rows) == {t.id : t \in rows}

\* datetime.utcnow(): later than every time a row carries
UtcNow(rows) ==
    IF rows = {} THEN 1
    ELSE 1 + (CHOOSE n \in {t.updated_at : t \in rows} :
                 \A t \in rows : t.updated_at <= n)

\* uuid.uuid4(): an id that no row carries
Uuid4(rows) ==
    LET k == CHOOSE i \in 1..(Cardinality(rows) + 1) :
                /\ ("thread-" \o Str(i)) \notin ThreadIds(rows)
                /\ \A j \in 1..(i - 1) : ("thread-" \o Str(j)) \in ThreadIds(rows)
    IN  "thread-" \o Str(k)

\* chat.py:120: the material of an analysis thread
ThreadMaterial(query_type, material_id) ==
    IF query_type = "notebook_analysis" THEN material_id ELSE Null

\* ResolveThread that keeps the id of the form when it names no thread
ResolveThreadKeepsId(rows, thread_id, user, message, mat_id) ==
    LET fresh == ThreadRow(Uuid4(rows), user, message, mat_id)
    IN  IF thread_id # "new" /\ thread_id \in ThreadIds(rows)
        THEN [thread_id |-> thread_id, rows |-> rows]
        ELSE [thread_id |-> IF thread_id = "new" THEN fresh.id ELSE thread_id,
              rows |-> rows \cup {fresh}]

\* chat.py:122-132: the thread of the exchange. "new" and an id that names
\* no row open a thread of the requesting user under a fresh id; an id
\* that names a row is looked up by id alone
ResolveThread(rows, thread_id, user, message, mat_id) ==
    LET fresh == ThreadRow(Uuid4(rows), user, message, mat_id)
    IN  IF thread_id # "new" /\ thread_id \in ThreadIds(rows)
        THEN [thread_id |-> thread_id, rows |-> rows]
        ELSE [thread_id |-> fresh.id, rows |-> rows \cup {fresh}]

\* chat.py:163: thread.updated_at = datetime.utcnow()
Touch(rows, thread_id) ==
    {IF t.id = thread_id THEN [t EXCEPT !.updated_at = UtcNow(rows)] ELSE t :
       t \in rows}

\* what an endpoint answers: the status, the detail of an HTTPException or
\* the status text of the body, and the messages of the body
Response(status, detail, messages) ==
    [status |-> status, detail |-> detail, messages |-> messages]

NoResponse == Response(0, Null, << >>)

StreamingResponse == Response(200, "text/event-stream", << >>)

\* the frames of the event stream
ThreadFrame == [event |-> "THREAD_ID", text |-> ThreadId]

Thinking(text) == [event |-> "THINKING", text |-> text]

SourcesFrame(cards) == [event |-> "SOURCES", sources |-> cards]

TokenFrame(token) == [event |-> "TOKEN", token |-> token]

\* FallbackFrame sent as a status line
FallbackFrameAsStatus ==
    Thinking("\n\n[Neural Link RESET_v3]: The system encountered a capacity issue. Please REFRESH/RESTART the analysis session.")

\* chat.py:382-384: the fallback message goes out as a token frame
FallbackFrame ==
    TokenFrame("\n\n[Neural Link RESET_v3]: The system encountered a capacity issue. Please REFRESH/RESTART the analysis session.")

EmptyContext ==
    [course_context |-> << >>, assistant_knowledge |-> << >>,
     chat_assets |-> << >>, memories |-> << >>, profile |-> << >>,
     rewritten_query |-> Null]

NoPrompt == [built |-> FALSE]

\* generate: short_term_history (chat.py:177-180)
ShortTermHistory(r) == IF r.history.json_ok THEN r.history.turns ELSE << >>

----------------------------------------------------------------------------
(* The tables of the course sync                                           *)

LmsTables == <<users, courses, user_courses>>

\* models.py:44-51: a Course row; last_synced is a logical time, 0 for NULL
CourseRow(id, name, professor, platform) ==
    [id |-> id, name |-> name, professor |-> professor,
     platform |-> platform, last_synced |-> 0]

\* models.py:20-30: a User row, by its email
UserRow(email) == [email |-> email, last_synced |-> 0]

\* models.py:7-13: a row of user_courses
Enrolment(email, course_id) == [user_id |-> email, course_id |-> course_id]

\* the courses earlier syncs, the Drive sync and a Moodle link left behind
SeedCourses ==
    { CourseRow("c1", "Algorithms", "Ada", "Google Classroom"),
      CourseRow("c2", "Databases", "Edgar", "Google Classroom"),
      CourseRow("GOOGLE_DRIVE", "Personal Google Drive", "Self", "Google Drive"),
      CourseRow("moodle-1", "Logic", "Kurt", "Moodle") }

SeedEnrolments ==
    { Enrolment(UserA, "c1"), Enrolment(UserA, "c2"),
      Enrolment(UserA, "GOOGLE_DRIVE"),
      Enrolment(UserB, "c1"), Enrolment(UserB, "moodle-1") }

----------------------------------------------------------------------------
(* Initial state: no request in flight, the store and the Material table   *)
(* hold what sync and earlier exchanges left there.                        *)

SeedStore ==
    LET ids == << "d1", "d2", "d3", "d4", "d5", "d6", "d7", "d8", "d9",
                  "d10" >>
    IN  [i \in 1..Len(ids) |-> CHOOSE d \in SeedDocs : d.documentId = ids[i]]

Init ==
    /\ pc = "idle"
    /\ req = NoRequest
    /\ q_type = Null
    /\ rc_material = Null
    /\ search_query = Null
    /\ outcome = [t \in TaskSet |-> "none"]
    /\ results = [t \in TaskSet |-> Returned(EmptyResponse)]
    /\ search_log = {}
    /\ llm_calls = << >>
    /\ usage = << >>
    /\ c_data = EmptyContext
    /\ prompt_args = NoPrompt
    /\ store = SeedStore
    /\ materials = MaterialRows
    /\ sm_api_key \in BOOLEAN
    /\ sm_writes = << >>
    /\ frames = << >>
    /\ final_sources = << >>
    /\ prompt_messages = << >>
    /\ full_response = ""
    /\ background = << >>
    /\ chat_messages = << >>
    /\ triage = NoTriage
    /\ sm_posts = [t \in TaskSet |-> << >>]
    /\ threads = {}
    /\ http_response = NoResponse
    /\ users = {UserRow(u) : u \in Users}
    /\ courses = SeedCourses
    /\ user_courses = SeedEnrolments

----------------------------------------------------------------------------
(* chat_stream: the request of a registered user is accepted and its       *)
(* generator starts.                                                       *)

\* the lookup finds a record for every email
RegisteredAnyone(email) == TRUE

\* chat.py:114-115: the User row of the email exists
Registered(email) == email \in Users

\* chat.py:116-117: no User row, HTTPException 404 before anything is
\* created
ChatStreamRejected(r) ==
    /\ pc = "idle"
    /\ ~Registered(r.user)
    /\ pc' = "rejected"
    /\ http_response' = Response(404, "User registration required.", << >>)
    /\ UNCHANGED <<LmsTables, threads, triage, sm_posts, req, q_type, rc_material, search_query,
                   outcome, results, search_log, llm_calls, usage, c_data,
                   prompt_args, store, materials, sm_api_key, sm_writes,
                   frames, final_sources, prompt_messages, full_response,
                   background, chat_messages>>

ChatStream(r) ==
    /\ pc = "idle"
    /\ Registered(r.user)
    /\ req' = r
    /\ chat_messages' = Append(chat_messages,
                               ChatMessage("user", r.message, << >>))
    /\ LET opened == ResolveThread(threads, "new", r.user, r.message,
                                  ThreadMaterial(r.query_type, r.material_id))
       IN  threads' = Touch(opened.rows, opened.thread_id)
    /\ http_response' = StreamingResponse
    /\ frames' = << ThreadFrame, Thinking("Classifying intent...") >>
    /\ pc' = "classify"
    /\ UNCHANGED <<LmsTables, triage, sm_posts, q_type, rc_material, search_query, outcome, results,
                   search_log, llm_calls, usage, c_data, prompt_args, store,
                   materials, sm_api_key, sm_writes, final_sources,
                   prompt_messages, full_response, background>>

\* generate: the effective intent
EffectiveType(query_type, classified) ==
    IF query_type \notin {Null, ""} THEN query_type ELSE classified

\* generate: the material scope handed to retrieve_context
RetrievalMaterial(qt, material_id) ==
    IF qt # "general_chat" THEN material_id ELSE Null

\* chat.py:191-195: the status line that precedes retrieve_context
RetrievalNotice(qt) ==
    IF qt # "general_chat"
    THEN Thinking("Searching your academic vault and focused documents...")
    ELSE Thinking("Personalizing response...")

\* generate, chat.py:183-196: classification returns a label, the effective
\* intent is fixed and retrieve_context is entered
Classify(o) ==
    /\ pc = "classify"
    /\ triage' = Triaged(o)
    /\ q_type' = EffectiveType(req.query_type, triage'.label)
    /\ rc_material' = RetrievalMaterial(q_type', req.material_id)
    /\ llm_calls' = IF o.kind = "no_key" THEN llm_calls
                    ELSE Append(llm_calls, "triage")
    /\ frames' = Append(frames, RetrievalNotice(q_type'))
    /\ pc' = "retrieve"
    /\ UNCHANGED <<LmsTables, threads, http_response, sm_posts, req, search_query, outcome, results, search_log, usage,
                   c_data, prompt_args, store, materials, sm_api_key,
                   sm_writes, final_sources, prompt_messages, full_response,
                   background, chat_messages>>

----------------------------------------------------------------------------
(* retrieve_context                                                        *)

UsageEntry(user, kind) == [user |-> user, kind |-> kind]

\* the task list as built at retrieval.py:127-144
TaskStart(t, query_type, material_id) ==
    IF IsSearched(t, query_type, material_id) THEN "pending" ELSE "skipped"

\* retrieval.py:75-144 : filters are built, the batch is logged once and the
\* tasks are created; sq is the search key
FanOut(sq, ledger) ==
    /\ search_query' = sq
    /\ usage' = Append(ledger, UsageEntry(req.user, "sm_request"))
    /\ outcome' = [t \in TaskSet |-> TaskStart(t, q_type, rc_material)]
    /\ results' = [t \in TaskSet |-> Returned(EmptyResponse)]
    /\ pc' = "fanout"

\* RewriteSkipped without the short-circuit
RewriteNeverSkipped(query, history) == FALSE

\* _contextualize_query / retrieval.py:73 with an empty history: the query is
\* the search key, nothing is called
RewriteSkipped(query, history) == history = << >>

RetrieveNoHistory ==
    /\ pc = "retrieve"
    /\ RewriteSkipped(req.message, ShortTermHistory(req))
    /\ FanOut(req.message, usage)
    /\ UNCHANGED <<LmsTables, threads, http_response, triage, sm_posts, req, q_type, rc_material, search_log, llm_calls, c_data,
                   prompt_args, store, materials, sm_api_key, sm_writes, frames,
                   final_sources, prompt_messages, full_response,
                   background, chat_messages>>

\* _contextualize_query, retrieval.py:23-50: input tokens are logged and the
\* completion is requested
RewriteCall ==
    /\ pc = "retrieve"
    /\ ~RewriteSkipped(req.message, ShortTermHistory(req))
    /\ usage' = Append(usage, UsageEntry(req.user, "rewrite_input"))
    /\ llm_calls' = Append(llm_calls, "rewrite")
    /\ pc' = "rewriting"
    /\ UNCHANGED <<LmsTables, threads, http_response, triage, sm_posts, req, q_type, rc_material, search_query, outcome, results,
                   search_log, c_data, prompt_args, store, materials,
                   sm_api_key, sm_writes, frames,
                   final_sources, prompt_messages, full_response,
                   background, chat_messages>>

\* retrieval.py:51-57 then 75-144: the completion arrived, its stripped text
\* is the search key
RewriteReturn(answer) ==
    /\ pc = "rewriting"
    /\ FanOut(Strip(answer),
              Append(usage, UsageEntry(req.user, "rewrite_output")))
    /\ UNCHANGED <<LmsTables, threads, http_response, triage, sm_posts, req, q_type, rc_material, search_log, llm_calls, c_data,
                   prompt_args, store, materials, sm_api_key, sm_writes, frames,
                   final_sources, prompt_messages, full_response,
                   background, chat_messages>>

\* what can go wrong inside the try of _contextualize_query once the
\* completion was requested: the call raises, the response carries no text
\* to strip, the logging of the output tokens raises
RewriteFailures == {"llm_error", "malformed_response", "usage_logging"}

\* FallbackQuery that hands back an empty search key
FallbackQueryEmpty(query) == ""

\* retrieval.py:58-60: the except branch returns the query it was given
FallbackQuery(query) == query

\* retrieval.py:58-60 then 75-144: the try was left through its except for
\* one of RewriteFailures, the original query is the search key
RewriteFail(kind) ==
    /\ pc = "rewriting"
    /\ kind \in RewriteFailures
    /\ FanOut(FallbackQuery(req.message), usage)
    /\ UNCHANGED <<LmsTables, threads, http_response, triage, sm_posts, req, q_type, rc_material, search_log, llm_calls, c_data,
                   prompt_args, store, materials, sm_api_key, sm_writes, frames,
                   final_sources, prompt_messages, full_response,
                   background, chat_messages>>

\* the searches of this fan-out whose POST failed so far
FailedTasks == {t \in TaskSet : outcome[t] \in HttpOutcomes \ {"200"}}

\* one task of the gather runs SupermemoryClient.search to its end
SearchStep(t, http) ==
    /\ pc = "fanout"
    /\ outcome[t] = "pending"
    /\ http # "200" => Cardinality(FailedTasks) < MaxFailures
    /\ LET call == SearchCall(t, req.user, search_query, req.course_id,
                              rc_material)
       IN  /\ search_log' = search_log \cup {call}
           /\ results' = [results EXCEPT
                            ![t] = Search(sm_api_key, store, call, http)]
           /\ sm_posts' = [sm_posts EXCEPT
                             ![t] = @ \o SearchPosts(sm_api_key, call)]
    /\ outcome' = [outcome EXCEPT ![t] = IF sm_api_key THEN http ELSE "nokey"]
    /\ UNCHANGED <<LmsTables, threads, http_response, triage, pc, req, q_type, rc_material, search_query, llm_calls,
                   usage, c_data, prompt_args, store, materials, sm_api_key, sm_writes, frames,
                   final_sources, prompt_messages, full_response,
                   background, chat_messages>>

\* retrieval.py:189-200: the dictionary retrieve_context returns
Combine(res, sq) ==
    [course_context      |-> flatten_v3(res["course"].value)
                             \o flatten_v3(res["focused"].value),
     assistant_knowledge |-> flatten_v3(res["assistant"].value),
     chat_assets         |-> flatten_v3(res["chat"].value),
     memories            |-> flatten_v3(res["memory"].value),
     profile             |-> flatten_v3(res["profile"].value),
     rewritten_query     |-> sq]

\* asyncio.gather without return_exceptions: the first exception of a task
\* is the exception of the gather
GatherRaises(res) == \E t \in TaskSet : res[t].raised

\* retrieval.py:146-200: every task is done, the results are combined; an
\* exception leaves retrieve_context and is caught at chat.py:380
Join ==
    /\ pc = "fanout"
    /\ \A t \in TaskSet : outcome[t] # "pending"
    /\ IF GatherRaises(results)
       THEN /\ pc' = "error"
            /\ frames' = Append(frames, FallbackFrame)
            /\ UNCHANGED c_data
       ELSE /\ pc' = "ground"
            /\ c_data' = Combine(results, search_query)
            /\ UNCHANGED frames
    /\ UNCHANGED <<LmsTables, threads, http_response, triage, sm_posts, req, q_type, rc_material, search_query, outcome, results,
                   search_log, llm_calls, usage, prompt_args, store,
                   materials, sm_api_key, sm_writes, final_sources,
                   prompt_messages, full_response, background, chat_messages>>

----------------------------------------------------------------------------
(* Grounding injection, chat.py:199-250                                    *)

NoRow ==
    [id |-> Null, user_id |-> Null, course_id |-> Null, title |-> Null,
     content |-> "", type |-> Null, source_link |-> Null,
     attachments |-> [json_ok |-> TRUE, items |-> << >>]]

\* db.query(Material).filter(Material.id == id).first()
RowWithId(rows, id) ==
    IF \E r \in rows : r.id = id THEN CHOOSE r \in rows : r.id = id ELSE NoRow

GroundingPrefixes == << "ann_att_", "ann_", "drive_file_" >>

\* chat.py:206-209: the prefixes are tried in order from the i-th on, a
\* prefix the id already starts with is passed over
RECURSIVE PrefixLookup(_, _, _)
PrefixLookup(rows, material_id, i) ==
    IF i > Len(GroundingPrefixes) THEN NoRow
    ELSE IF StartsWith(material_id, GroundingPrefixes[i])
         THEN PrefixLookup(rows, material_id, i + 1)
         ELSE LET m == RowWithId(rows, GroundingPrefixes[i] \o material_id)
              IN  IF m # NoRow THEN m
                  ELSE PrefixLookup(rows, material_id, i + 1)

\* chat.py:204-209: the primary document of the material scope
ResolvePrimary(rows, material_id) ==
    LET m == RowWithId(rows, material_id)
    IN  IF m # NoRow THEN m ELSE PrefixLookup(rows, material_id, 1)

Truthy(v) == v \notin {Null, ""}

\* chat.py:214-222
PrimaryEntry(m) ==
    [content  |-> m.content,
     metadata |-> [title     |-> IF Truthy(m.title) THEN m.title
                                 ELSE "Institutional Document",
                   type      |-> m.type,
                   course_id |-> m.course_id,
                   id        |-> m.id]]

\* chat.py:238-248
AttachmentEntry(m, att_m) ==
    [content  |-> att_m.content,
     metadata |-> [title       |-> att_m.title,
                   type        |-> "attachment",
                   course_name |-> m.title,
                   source_id   |-> m.id,
                   id          |-> att_m.id,
                   source_link |-> att_m.source_link]]

\* chat.py:229: a.get("id") or a.get("file_id")
AttachmentFid(a) == IF Has(a, "id") THEN a.id ELSE Get(a, "file_id")

\* chat.py:227-231
IdsToFetch(items) ==
    Concat([i \in 1..Len(items) |->
              IF Truthy(AttachmentFid(items[i]))
              THEN << AttachmentFid(items[i]),
                      "ann_att_" \o AttachmentFid(items[i]),
                      "drive_file_" \o AttachmentFid(items[i]) >>
              ELSE << >>])

\* chat.py:234: the rows an IN query returns, in an order the database picks
Orderings(S) ==
    {o \in [1..Cardinality(S) -> S] : \A r \in S : \E i \in DOMAIN o : o[i] = r}

AttachmentRows(rows, ids) == {r \in rows : r.id \in SeqToSet(ids)}

\* list.insert(0, e)
InsertFront(ctx, e) == << e >> \o ctx

\* chat.py:235-248: the attachments with content, each inserted at the front
\* in the order the query returned them
RECURSIVE InjectAttachments(_, _, _)
InjectAttachments(ctx, m, atts) ==
    IF atts = << >> THEN ctx
    ELSE InjectAttachments(
            IF Truthy(Head(atts).content)
            THEN InsertFront(ctx, AttachmentEntry(m, Head(atts))) ELSE ctx,
            m, Tail(atts))

\* chat.py:211-222: the primary document goes to the front when it has content
InjectPrimary(ctx, m) ==
    IF Truthy(m.content) THEN InsertFront(ctx, PrimaryEntry(m)) ELSE ctx

\* grounding whose attachment failure undoes the injection of the primary
\* document
GroundedContextsUndone(rows, material_id, ctx) ==
    IF ~Truthy(material_id) THEN {ctx}
    ELSE LET m == ResolvePrimary(rows, material_id)
             with_primary == InjectPrimary(ctx, m)
             ids == IdsToFetch(m.attachments.items)
         IN  IF m = NoRow THEN {ctx}
             ELSE IF ~m.attachments.json_ok THEN {ctx}
             ELSE IF ids = << >> THEN {with_primary}
             ELSE {ctx}
                  \cup {InjectAttachments(with_primary, m, o) :
                          o \in Orderings(AttachmentRows(rows, ids))}

\* chat.py:202-250: the course_context lists grounding can leave behind; a
\* failure of json.loads or of the attachment query is caught at line 249
\* and keeps what was injected before it
GroundedContexts(rows, material_id, ctx) ==
    IF ~Truthy(material_id) THEN {ctx}
    ELSE LET m == ResolvePrimary(rows, material_id)
             with_primary == InjectPrimary(ctx, m)
             ids == IdsToFetch(m.attachments.items)
         IN  IF m = NoRow THEN {ctx}
             ELSE IF ~m.attachments.json_ok \/ ids = << >> THEN {with_primary}
             ELSE {with_primary}
                  \cup {InjectAttachments(with_primary, m, o) :
                          o \in Orderings(AttachmentRows(rows, ids))}

Ground ==
    /\ pc = "ground"
    /\ \E ctx \in GroundedContexts(materials, req.material_id,
                                   c_data.course_context) :
          c_data' = [c_data EXCEPT !.course_context = ctx]
    /\ pc' = "compose"
    /\ UNCHANGED <<LmsTables, threads, http_response, triage, sm_posts, req, q_type, rc_material, search_query, outcome, results,
                   search_log, llm_calls, usage, prompt_args, store,
                   materials, sm_api_key, sm_writes, frames,
                   final_sources, prompt_messages, full_response,
                   background, chat_messages>>

----------------------------------------------------------------------------
(* Source aggregation, chat.py:252-342                                     *)

\* cards of the SOURCES frame
SourceCap == 15

\* snippets one card collects
SnippetCap == 3

\* a or b on dictionary values
Or(a, b) == IF Truthy(a) THEN a ELSE b

\* sep.join(parts)
RECURSIVE JoinWith(_, _)
JoinWith(parts, sep) ==
    IF parts = << >> THEN ""
    ELSE IF Len(parts) = 1 THEN parts[1]
    ELSE parts[1] \o sep \o JoinWith(Tail(parts), sep)

\* pat occurs in s at position i; the pattern character _ stands for any
\* one character, as in a LIKE pattern
RECURSIVE LikeAt(_, _, _)
LikeAt(s, i, pat) ==
    \/ pat = ""
    \/ /\ i <= Len(s)
       /\ SubSeq(pat, 1, 1) \in {"_", SubSeq(s, i, i)}
       /\ LikeAt(s, i + 1, SubSeq(pat, 2, Len(pat)))

\* column LIKE '%pat%'; NULL never matches
Like(column, pat) ==
    /\ column # Null
    /\ \E i \in 1..(Len(column) + 1) : LikeAt(column, i, pat)

\* chat.py:255-258: the chunks in the order the loops visit them, each with
\* the display prefix of its partition (the icons are written out)
SourceItems(cd) ==
    LET prefixes ==
            << [cat |-> "course_context",      prefix |-> "(books) "],
               [cat |-> "assistant_knowledge", prefix |-> "(mail) "],
               [cat |-> "chat_assets",         prefix |-> "(clip) "],
               [cat |-> "memories",            prefix |-> "(brain) "] >>
    IN  Concat([c \in 1..Len(prefixes) |->
                  [i \in 1..Len(cd[prefixes[c].cat]) |->
                     [prefix |-> prefixes[c].prefix,
                      item   |-> cd[prefixes[c].cat][i]]]])

\* chat.py:262-264
CourseName(meta) == Or(Get(meta, "course_name"), Or(Get(meta, "course_id"), ""))

BaseTitle(meta) ==
    Or(Get(meta, "title"), Or(Get(meta, "file_name"), "Institutional Document"))

FullTitle(base_title, course_name) ==
    IF Truthy(course_name) THEN base_title \o " [" \o course_name \o "]"
    ELSE base_title

\* chat.py:273-278: the first chunk of course_context that refers to the
\* announcement, as list of at most one
Siblings(ctx, ann_id) ==
    Take(SelectSeq(ctx, LAMBDA other :
                      \/ Get(other.metadata, "source_id") = ann_id
                      \/ Get(other.metadata, "parent_announcement_id") = ann_id),
         1)

\* chat.py:284-287: the rows the child query matches
ChildAttachments(rows, ann_id) ==
    {r \in rows :
        /\ Like(r.id, ann_id) \/ Like(r.source_link, ann_id)
        /\ r.type \in {"drive_file", "attachment",
                        "announcement_drive_attachment"}}

\* chat.py:300-306: the id of the first attachment that carries one
RECURSIVE FirstFid(_)
FirstFid(items) ==
    IF items = << >> THEN Null
    ELSE LET a == Head(items)
             df == IF "driveFile" \in DOMAIN a
                   THEN IF "driveFile" \in DOMAIN a.driveFile
                        THEN a.driveFile.driveFile ELSE << >>
                   ELSE a
             fid == Or(Get(df, "id"), Or(Get(df, "file_id"), Get(a, "id")))
         IN  IF Truthy(fid) THEN fid ELSE FirstFid(Tail(items))

\* the ids of the announcement chunks the loops visit
AnnouncementIds(cd) ==
    {x.item.metadata.id : x \in
        {y \in SeqToSet(SourceItems(cd)) :
            /\ Get(y.item.metadata, "type") = "announcement"
            /\ Truthy(Get(y.item.metadata, "id"))}}

\* .first() of the child query: for every announcement one of the matching
\* rows, whichever the database returns, or no row
ChildPicks(rows, cd) ==
    {f \in [AnnouncementIds(cd) -> rows \cup {NoRow}] :
        \A a \in AnnouncementIds(cd) :
           IF ChildAttachments(rows, a) = {} THEN f[a] = NoRow
           ELSE f[a] \in ChildAttachments(rows, a)}

\* chat.py:266-308: the material id of the card of one chunk
SourceMaterialId(meta, ctx, rows, pick) ==
    LET own == Or(Get(meta, "id"), Get(meta, "source_id"))
        ann_id == Get(meta, "id")
        sib == Siblings(ctx, ann_id)
        m_record == RowWithId(rows, ann_id)
        fid == IF m_record # NoRow /\ m_record.attachments.json_ok
               THEN FirstFid(m_record.attachments.items) ELSE Null
    IN  IF Get(meta, "type") # "announcement" \/ ~Truthy(ann_id) THEN own
        ELSE IF sib # << >> THEN Get(sib[1].metadata, "id")
        ELSE IF pick[ann_id] # NoRow THEN pick[ann_id].id
        ELSE IF Truthy(fid) THEN fid
        ELSE own

\* chat.py:262-264 and 311-317: the key of one chunk; a missing or generic
\* title is replaced by the title of the Material row of the card
SourceKey(meta, mat_id, rows) ==
    LET db_m_lookup == RowWithId(rows, mat_id)
        recovered == /\ Get(meta, "title") \in {Null, "", "Institutional Document"}
                     /\ db_m_lookup # NoRow
    IN  FullTitle(IF recovered THEN db_m_lookup.title ELSE BaseTitle(meta),
                  CourseName(meta))

\* chat.py:320-327
NewCard(x, full_title, mat_id) ==
    [title       |-> full_title,
     display     |-> x.prefix \o full_title,
     link        |-> Or(Get(x.item.metadata, "source_link"),
                        Or(Get(x.item.metadata, "url"),
                           Or(Get(x.item.metadata, "webViewLink"),
                              Get(x.item.metadata, "link")))),
     snippets    |-> << x.item.content >>,
     source_type |-> IF "type" \in DOMAIN x.item.metadata
                     THEN x.item.metadata.type ELSE "document",
     material_id |-> mat_id]

\* AddSnippet without the cap
AddSnippetUncapped(card, content) ==
    [card EXCEPT !.snippets = Append(@, content)]

\* chat.py:330-331
AddSnippet(card, content) ==
    IF Len(card.snippets) < SnippetCap
    THEN [card EXCEPT !.snippets = Append(@, content)]
    ELSE card

\* chat.py:319-331: sources_dict after one more chunk
AddSource(cards, x, ctx, rows, pick) ==
    LET mat_id == SourceMaterialId(x.item.metadata, ctx, rows, pick)
        full_title == SourceKey(x.item.metadata, mat_id, rows)
    IN  IF \A i \in 1..Len(cards) : cards[i].title # full_title
        THEN Append(cards, NewCard(x, full_title, mat_id))
        ELSE [i \in 1..Len(cards) |->
                IF cards[i].title = full_title
                THEN AddSnippet(cards[i], x.item.content) ELSE cards[i]]

RECURSIVE AddSources(_, _, _, _, _)
AddSources(cards, items, ctx, rows, pick) ==
    IF items = << >> THEN cards
    ELSE AddSources(AddSource(cards, Head(items), ctx, rows, pick),
                    Tail(items), ctx, rows, pick)

\* chat.py:335-338: the snippets are joined, empty ones left out
FinalCard(s) ==
    [title       |-> s.title,
     display     |-> s.display,
     link        |-> s.link,
     source_type |-> s.source_type,
     material_id |-> s.material_id,
     snippet     |-> JoinWith(SelectSeq(s.snippets, Truthy),
                              "\n--- [Next Section] ---\n")]

\* chat.py:253-338: final_sources
Sources(cd, qt, rows, pick) ==
    IF qt = "general_chat" THEN << >>
    ELSE LET cards == AddSources(<< >>, SourceItems(cd), cd.course_context,
                                 rows, pick)
         IN  [i \in 1..Len(cards) |-> FinalCard(cards[i])]

\* SourceFrames with the whole list in the frame
SourceFramesUncapped(qt, sources) ==
    IF sources # << >> /\ qt # "general_chat"
    THEN << Thinking("Broadcasting relevant sources..."),
            SourcesFrame(sources) >>
    ELSE << >>

\* chat.py:340-342: the frames that announce the sources
SourceFrames(qt, sources) ==
    IF sources # << >> /\ qt # "general_chat"
    THEN << Thinking("Broadcasting relevant sources..."),
            SourcesFrame(Take(sources, SourceCap)) >>
    ELSE << >>

----------------------------------------------------------------------------
(* Prompt composition and streaming, chat.py:345-386, and                  *)
(* PromptArchitect.build_prompt                                            *)

\* the turns of the history build_prompt passes on
HistoryCap == 10

\* str.upper()
RECURSIVE Upper(_)
Upper(s) ==
    LET LowerCase == "abcdefghijklmnopqrstuvwxyz"
        UpperCase == "ABCDEFGHIJKLMNOPQRSTUVWXYZ"
        UpperChar(c) ==
            IF \E i \in 1..Len(LowerCase) : SubSeq(LowerCase, i, i) = c
            THEN LET i == CHOOSE j \in 1..Len(LowerCase) :
                             SubSeq(LowerCase, j, j) = c
                 IN  SubSeq(UpperCase, i, i)
            ELSE c
    IN  IF s = "" THEN ""
        ELSE UpperChar(SubSeq(s, 1, 1)) \o Upper(SubSeq(s, 2, Len(s)))

\* prompt_architect.py:52-54: the title of a chunk's document
UniqueName(meta) == FullTitle(BaseTitle(meta), CourseName(meta))

\* prompt_architect.py:39-67: docs after one more chunk; the chunk of the
\* analysed material is left out when its text came with the request
AddChunk(docs, c, material_id, attachment_text) ==
    LET meta == c.metadata
        source_id == Or(Get(meta, "source_id"), Get(meta, "documentId"))
        key == Or(source_id, Or(Get(meta, "file_name"), UniqueName(meta)))
        new == [key |-> key,
                title |-> UniqueName(meta),
                course |-> Or(CourseName(meta), "General Workspace"),
                category |-> Or(Get(meta, "type"), "Institutional Material"),
                link |-> Or(Get(meta, "source_link"), Get(meta, "url")),
                chunks |-> << >>]
        known == IF \A i \in 1..Len(docs) : docs[i].key # key
                 THEN Append(docs, new) ELSE docs
    IN  IF /\ Truthy(material_id)
           /\ source_id = material_id
           /\ Truthy(attachment_text)
        THEN docs
        ELSE [i \in 1..Len(known) |->
                IF known[i].key = key
                THEN [known[i] EXCEPT !.chunks = Append(@, c.content)]
                ELSE known[i]]

\* grouping that opens a document for every chunk
GroupChunksApart(docs, chunks, material_id, attachment_text) ==
    docs \o Concat([i \in 1..Len(chunks) |->
                      AddChunk(<< >>, chunks[i], material_id,
                               attachment_text)])

RECURSIVE GroupChunks(_, _, _, _)
GroupChunks(docs, chunks, material_id, attachment_text) ==
    IF chunks = << >> THEN docs
    ELSE GroupChunks(AddChunk(docs, Head(chunks), material_id, attachment_text),
                     Tail(chunks), material_id, attachment_text)

\* prompt_architect.py:24-79: the rendered academic context
KnowledgeBase(chunks, attachment_text, material_id) ==
    LET current == [key |-> "CURRENT_DOCUMENT",
                    title |-> "Currently Viewed Document",
                    course |-> "Analysis Workspace",
                    category |-> "PRIMARY SOURCE",
                    link |-> Null, chunks |-> << attachment_text >>]
        docs == GroupChunks(IF Truthy(attachment_text) THEN << current >>
                            ELSE << >>,
                            chunks, material_id, attachment_text)
        Block(d) ==
            "[" \o Upper(d.category) \o " | " \o d.course \o "]\n"
            \o "DOCUMENT: " \o d.title \o "\n"
            \o (IF Truthy(d.link) THEN "LINK: " \o d.link \o "\n" ELSE "")
            \o "CONTENT: " \o JoinWith(d.chunks, "\n\n")
    IN  IF docs = << >> THEN "General academic intelligence."
        ELSE JoinWith([i \in 1..Len(docs) |-> Block(docs[i])], "\n\n---\n\n")

\* prompt_architect.py:86-97: ak_docs after one more chunk
AddAk(docs, ak) ==
    LET meta == ak.metadata
        key == Or(Get(meta, "documentId"),
                  Or(Get(meta, "subject"), Get(meta, "id")))
        header == "[" \o (IF "category" \in DOMAIN meta
                          THEN Upper(meta.category) ELSE "INTEL")
                  \o " | TITLE: "
                  \o Or(Get(meta, "subject"),
                        Or(Get(meta, "title"), "Workspace Item"))
                  \o "]"
        known == IF \A i \in 1..Len(docs) : docs[i].key # key
                 THEN Append(docs, [key |-> key, header |-> header,
                                    chunks |-> << >>])
                 ELSE docs
    IN  [i \in 1..Len(known) |->
           IF known[i].key = key
           THEN [known[i] EXCEPT !.chunks = Append(@, ak.content)]
           ELSE known[i]]

RECURSIVE GroupAk(_, _)
GroupAk(docs, aks) ==
    IF aks = << >> THEN docs ELSE GroupAk(AddAk(docs, Head(aks)), Tail(aks))

\* prompt_architect.py:82-109
AssistantWorkspace(assistant_knowledge, chat_assets) ==
    LET ak_docs == GroupAk(<< >>, assistant_knowledge)
        AssetBlock(asset) ==
            "[PAST ASSET | "
            \o (IF "file_name" \in DOMAIN asset.metadata
                THEN asset.metadata.file_name ELSE "Previous Asset")
            \o "]\nCONTENT: " \o asset.content
        blocks == [i \in 1..Len(ak_docs) |->
                     ak_docs[i].header \o "\nCONTEXT: "
                     \o JoinWith(ak_docs[i].chunks, "\n")]
                  \o [i \in 1..Len(chat_assets) |-> AssetBlock(chat_assets[i])]
    IN  IF blocks = << >> THEN "No proprietary workspace context detected."
        ELSE JoinWith(blocks, "\n\n")

\* prompt_architect.py:112 and 115: one bulleted line per chunk (the bullet
\* is written as *)
Bulleted(chunks, placeholder) ==
    IF chunks = << >> THEN placeholder
    ELSE JoinWith([i \in 1..Len(chunks) |-> "* " \o chunks[i].content], "\n")

\* prompt_architect.py:119-138: the companion template.  Of the fixed text
\* of the three templates the model keeps the identity line, the section
\* headings and the directives about sources and citations.
CompanionTemplate(knowledge_base, assistant_workspace, identity_logic, memory_vault) ==
    "\n# IDENTITY: FIWB Digital Companion\n"
    \o "\n# PROPRIETARY WORKSPACE (Institutional Intel):\n"
    \o assistant_workspace \o "\n"
    \o "\n# ACADEMIC / DRIVE CONTEXT:\n"
    \o knowledge_base \o "\n"
    \o "\n# COGNITIVE CONTEXT (Your Memory of User):\n"
    \o "- Learned Identity: " \o identity_logic \o "\n"
    \o "- Past Insights: " \o memory_vault \o "\n"
    \o "\n# DIRECTIVE:\n"
    \o "1. Be empathetic and supportive. Reference their tasks or events from the workspace if relevant.\n"
    \o "2. Use **bold** for important dates or tasks.\n"
    \o "3. If referencing institutional items, use their full titles: Title [Course].\n"

\* AnalysisTemplate with the academic context rendered into it
AnalysisTemplateWithVault(knowledge_base, assistant_workspace, identity_logic, memory_vault) ==
    "\n# IDENTITY: NotebookCore - Document Analysis Engine\n"
    \o "\n# ABSOLUTE RULES (NEVER VIOLATE):\n"
    \o "1. **SOURCE-ONLY**: You may ONLY use information from the [ACADEMIC VAULT]. NEVER use external training data.\n"
    \o "\n# [ACADEMIC VAULT]:\n"
    \o knowledge_base \o "\n"

\* prompt_architect.py:140-183: the analysis template; the f-string has the
\* rendered sections in scope and interpolates none of them
AnalysisTemplate(knowledge_base, assistant_workspace, identity_logic, memory_vault) ==
    "\n# IDENTITY: NotebookCore - Document Analysis Engine\n"
    \o "\n# ABSOLUTE RULES (NEVER VIOLATE):\n"
    \o "1. **SOURCE-ONLY**: You may ONLY use information from the [ACADEMIC VAULT]. NEVER use external training data.\n"
    \o "2. **NO ACCESS DENIAL**: You HAVE the documents.\n"
    \o "3. **INLINE PAGE CITATIONS**: Every factual claim MUST have an inline citation containing EXACTLY the page number from the source text.\n"
    \o "4. **STRICT FORMATTING**: Do NOT build a bibliography or 'Sources' list at the bottom of your response.\n"
    \o "\n# CITATION FORMAT:\n"
    \o "\n# RESPONSE STRUCTURE:\n"
    \o "\n# VISUAL FORMATTING:\n"

\* prompt_architect.py:186-215: the tutor template
TutorTemplate(knowledge_base, assistant_workspace, identity_logic, memory_vault) ==
    "\n# IDENTITY: FIWB Institutional Intelligence (FIWB-II)\n"
    \o "You are an elite academic mentor and Socratic tutor. \n"
    \o "\n# [CRITICAL] ACADEMIC VAULT (Verified Peer-Reviewed/Course Materials):\n"
    \o knowledge_base \o "\n"
    \o "\n# [SECONDARY] ASSISTANT WORKSPACE (Life/Context/Workspace):\n"
    \o assistant_workspace \o "\n"
    \o "\n# [DIGITAL TWIN] PERSONALIZED INTELLIGENCE (Your Memory of the Student):\n"
    \o "- Student Profile & Preferences: " \o identity_logic \o "\n"
    \o "- Behavioral Patterns & Past Memories: " \o memory_vault \o "\n"
    \o "\n# OPERATIONAL DIRECTIVES:\n"
    \o "1. **Grounded Reasoning**: PRIORITIZE the [ACADEMIC VAULT]. Quote materials directly.\n"
    \o "5. **Citations & Grounding**: Every factual claim from a document MUST have an inline citation with the page number (e.g., [5]). \n"
    \o "\n# VISUAL EXCELLENCE:\n"

\* SystemPrompt that gives the tutor template to a general chat with
\* retrieved documents
SystemPromptByContext(query_type, knowledge_base, assistant_workspace, identity_logic, memory_vault) ==
    Strip(CASE query_type = "general_chat"
                 /\ knowledge_base = "General academic intelligence." ->
                 CompanionTemplate(knowledge_base, assistant_workspace,
                                   identity_logic, memory_vault)
            [] query_type = "notebook_analysis" ->
                 AnalysisTemplate(knowledge_base, assistant_workspace,
                                  identity_logic, memory_vault)
            [] OTHER ->
                 TutorTemplate(knowledge_base, assistant_workspace,
                               identity_logic, memory_vault))

\* prompt_architect.py:118-216: SYSTEM_PROMPT.strip()
SystemPrompt(query_type, knowledge_base, assistant_workspace, identity_logic, memory_vault) ==
    Strip(CASE query_type = "general_chat" ->
                 CompanionTemplate(knowledge_base, assistant_workspace,
                                   identity_logic, memory_vault)
            [] query_type = "notebook_analysis" ->
                 AnalysisTemplate(knowledge_base, assistant_workspace,
                                  identity_logic, memory_vault)
            [] OTHER ->
                 TutorTemplate(knowledge_base, assistant_workspace,
                               identity_logic, memory_vault))

\* prompt_architect.py:221
HistoryRole(role) == IF role = "user" THEN "user" ELSE "assistant"

\* HistoryMessages without the cap
HistoryMessagesUncapped(history) ==
    [i \in 1..Len(history) |->
       [role    |-> HistoryRole(Get(history[i], "role")),
        content |-> Get(history[i], "content")]]

\* prompt_architect.py:219-222: history[-10:], each turn with its mapped
\* role and its content
HistoryMessages(history) ==
    LET n == Len(history)
        recent == SubSeq(history,
                         IF n > HistoryCap THEN n - HistoryCap + 1 ELSE 1, n)
    IN  [i \in 1..Len(recent) |->
           [role    |-> HistoryRole(Get(recent[i], "role")),
            content |-> Get(recent[i], "content")]]

GroundingPart(knowledge_base) ==
    [type |-> "text",
     text |-> "# [CRITICAL] VITAL GROUNDING (ACADEMIC VAULT):\n"
              \o knowledge_base \o "\n\n---"]

\* FinalQueryContent with the grounding text after the query
FinalQueryContentGroundingLast(user_query, knowledge_base, base64_image, query_type) ==
    (IF Truthy(base64_image)
     THEN << [type |-> "image_url", image_url |-> [url |-> base64_image]] >>
     ELSE << >>)
    \o << [type |-> "text", text |-> user_query] >>
    \o (IF query_type = "notebook_analysis"
        THEN << GroundingPart(knowledge_base) >> ELSE << >>)

\* prompt_architect.py:225-240: the parts of the final user message
FinalQueryContent(user_query, knowledge_base, base64_image, query_type) ==
    (IF query_type = "notebook_analysis"
     THEN << GroundingPart(knowledge_base) >> ELSE << >>)
    \o (IF Truthy(base64_image)
        THEN << [type |-> "image_url", image_url |-> [url |-> base64_image]] >>
        ELSE << >>)
    \o << [type |-> "text", text |-> user_query] >>

\* PromptArchitect.build_prompt
build_prompt(a) ==
    LET knowledge_base == KnowledgeBase(a.retrieved_chunks, a.attachment_text,
                                        a.material_id)
    IN  << [role |-> "system",
            content |-> SystemPrompt(a.query_type, knowledge_base,
                                     AssistantWorkspace(a.assistant_knowledge,
                                                        a.chat_assets),
                                     Bulleted(a.profile,
                                              "Analyze learning behavior."),
                                     Bulleted(a.memories,
                                              "Establish prior student context."))] >>
        \o HistoryMessages(a.history)
        \o << [role |-> "user",
               content |-> FinalQueryContent(a.user_query, knowledge_base,
                                             a.base64_image, a.query_type)] >>

\* chat.py:355: the image of the upload as a data URL
Base64Image(r) ==
    IF Truthy(r.file_type) /\ StartsWith(r.file_type, "image/")
    THEN "data:" \o r.file_type \o ";base64,aGVsbG8=" ELSE Null

\* ComposeFrames that announces the sources whatever the intent and the list
ComposeFramesAnyIntent(qt, sources) ==
    << Thinking("Broadcasting relevant sources..."),
       SourcesFrame(Take(sources, SourceCap)),
       Thinking("Synthesizing response...") >>

\* chat.py:340-343: the frames between grounding and the completion
ComposeFrames(qt, sources) ==
    SourceFrames(qt, sources) \o << Thinking("Synthesizing response...") >>

\* chat.py:346-358: the arguments of build_prompt
\* build_prompt called before the retrieval result is at hand
PromptArgumentsUnmerged(r, qt, cd) ==
    [built               |-> TRUE,
     user_query          |-> r.message,
     retrieved_chunks    |-> << >>,
     assistant_knowledge |-> << >>,
     chat_assets         |-> << >>,
     memories            |-> << >>,
     profile             |-> << >>,
     history             |-> ShortTermHistory(r),
     attachment_text     |-> r.attachment_text,
     base64_image        |-> Base64Image(r),
     query_type          |-> qt,
     material_id         |-> r.material_id]

PromptArguments(r, qt, cd) ==
    [built               |-> TRUE,
     user_query          |-> r.message,
     retrieved_chunks    |-> cd.course_context,
     assistant_knowledge |-> cd.assistant_knowledge,
     chat_assets         |-> cd.chat_assets,
     memories            |-> cd.memories,
     profile             |-> cd.profile,
     history             |-> ShortTermHistory(r),
     attachment_text     |-> r.attachment_text,
     base64_image        |-> Base64Image(r),
     query_type          |-> qt,
     material_id         |-> r.material_id]

\* chat.py:252-358: the source cards are built and announced, then the
\* prompt is built
Compose ==
    /\ pc = "compose"
    /\ \E pick \in ChildPicks(materials, c_data) :
          final_sources' = Sources(c_data, q_type, materials, pick)
    /\ frames' = frames \o ComposeFrames(q_type, final_sources')
    /\ prompt_args' = PromptArguments(req, q_type, c_data)
    /\ prompt_messages' = build_prompt(prompt_args')
    /\ pc' = "stream"
    /\ UNCHANGED <<LmsTables, threads, http_response, triage, sm_posts, req, q_type, rc_material, search_query, outcome, results,
                   search_log, llm_calls, usage, c_data, store, materials,
                   sm_api_key, sm_writes, full_response, background,
                   chat_messages>>

\* the tokens the completion model streams
ResponseTokens == << "A function ", "that calls itself." >>

\* full_response += token, for each token of the sequence
RECURSIVE Joined(_)
Joined(tokens) ==
    IF tokens = << >> THEN "" ELSE Head(tokens) \o Joined(Tail(tokens))

\* chat.py:199-384: a statement of generate outside the guarded blocks
\* raises (a query of the Material table at 204-208, the composition of the
\* prompt); the except of line 380 sends the fallback and the generator
\* ends
GenerateRaises ==
    /\ pc \in {"ground", "compose"}
    /\ frames' = Append(frames, FallbackFrame)
    /\ pc' = "error"
    /\ UNCHANGED <<LmsTables, threads, http_response, triage, sm_posts, req, q_type, rc_material, search_query,
                   outcome, results, search_log, llm_calls, usage, c_data,
                   prompt_args, store, materials, sm_api_key, sm_writes,
                   final_sources, prompt_messages, full_response, background,
                   chat_messages>>

\* how the streaming of chat.py:364-375 can end: the completion ends, the
\* call or the iteration raises, the client closes the connection while the
\* generator is suspended at the yield of a token
StreamEnds == {"complete", "raises", "disconnect"}

\* chat.py:378: the arguments of the finalize_stream task
FinalizeTask(r, qt, response, sources) ==
    [task |-> "finalize_stream", thread_id |-> ThreadId,
     response |-> response, email |-> r.user, query |-> r.message,
     history |-> ShortTermHistory(r), q_type |-> qt, sources |-> sources]

\* chat.py:371-386: line 378 is reached only when the loop over the
\* completion ran to its end; an exception goes to the except of line 380,
\* a closed generator goes to the finally of line 385
StreamSchedule(how, tasks, task) ==
    IF how = "complete" THEN Append(tasks, task) ELSE tasks

\* chat.py:364-386: k tokens are received and yielded, then the streaming
\* ends as how tells
Stream(how, k) ==
    /\ pc = "stream"
    /\ k \in 0..Len(ResponseTokens)
    /\ how = "complete" => k = Len(ResponseTokens)
    /\ how = "raises" => k < Len(ResponseTokens)
    /\ how = "disconnect" => k >= 1
    /\ llm_calls' = Append(llm_calls, "chat")
    /\ full_response' = Joined(Take(ResponseTokens, k))
    /\ frames' = frames
                  \o [i \in 1..k |-> TokenFrame(ResponseTokens[i])]
                  \o (IF how = "raises" THEN << FallbackFrame >> ELSE << >>)
    /\ background' =
          StreamSchedule(how, background,
                         FinalizeTask(req, q_type, full_response',
                                      final_sources))
    /\ pc' = CASE how = "complete"   -> "finalize"
                [] how = "raises"     -> "error"
                [] how = "disconnect" -> "disconnected"
    /\ UNCHANGED <<LmsTables, threads, http_response, triage, sm_posts, req, q_type, rc_material, search_query, outcome, results,
                   search_log, usage, c_data, prompt_args, store, materials,
                   sm_api_key, sm_writes, final_sources, prompt_messages,
                   chat_messages>>

----------------------------------------------------------------------------
(* finalize_stream and MemoryAgent.synthesize_and_save                     *)

\* what the extraction model can answer: the interaction type it names (or
\* none) and the strengths and knowledge gaps it surfaced
Extractions ==
    { [interaction_type |-> "question", strengths |-> << "recursion" >>,
       knowledge_gaps |-> << >>],
      [interaction_type |-> "question", strengths |-> << >>,
       knowledge_gaps |-> << "pointers", "big-O" >>],
      [interaction_type |-> Null, strengths |-> << >>,
       knowledge_gaps |-> << >>] }

\* chat.py:412
AdditionalContext(qt) == [thread_id |-> ThreadId, type |-> qt]

\* memory_agent.py:125-134
MemoryMetadata(user, extraction, additional_context) ==
    Merge([user_id          |-> user,
           type             |-> MemoryType,
           interaction_type |-> extraction.interaction_type],
          additional_context)

\* memory_agent.py:155
ProfileMetadata(user) == [user_id |-> user, type |-> "user_profile"]

\* add_document, client.py:45-48: None values are dropped and a missing type
\* becomes "document"
CleanMeta(metadata) ==
    LET kept == {k \in DOMAIN metadata : metadata[k] # Null}
        clean == [k \in kept |-> metadata[k]]
    IN  IF "type" \in kept THEN clean ELSE Put(clean, "type", "document")

\* the payload of one add_document call
Payload(title, content, metadata) ==
    [title |-> title, content |-> content, metadata |-> CleanMeta(metadata)]

\* the document the store keeps for an accepted payload
Stored(payload, n) ==
    [documentId |-> IF n = 1 THEN "w1" ELSE "w2",
     content |-> payload.content, metadata |-> payload.metadata,
     chunks |-> << >>]

\* how the store answers one add_document call: 429 to the first
\* rate_limited requests, then always with the status (or transport
\* exception) named by then
Scripts ==
    [rate_limited : 0..MaxRateLimited,
     then : {"200", "400", "401", "500", "exception"}]

RECURSIVE add_document_retrying(_, _, _)
RECURSIVE add_document(_, _, _)

\* add_document that repeats the request after any failure
add_document_retrying(has_key, script, attempt) ==
    IF ~has_key \/ attempt >= MaxRetries
    THEN [statuses |-> << >>, result |-> Null]
    ELSE LET status == IF attempt < script.rate_limited THEN "429"
                       ELSE script.then
             rest == add_document_retrying(has_key, script, attempt + 1)
         IN  IF status # "200"
             THEN [statuses |-> << status >> \o rest.statuses,
                   result |-> rest.result]
             ELSE [statuses |-> << status >>, result |-> "document"]

\* client.py:35-84: add_document from the given attempt of its loop on: the
\* statuses of the requests it sends and what it returns (the document of a
\* 200 answer, or None)
add_document(has_key, script, attempt) ==
    IF ~has_key \/ attempt >= MaxRetries
    THEN [statuses |-> << >>, result |-> Null]
    ELSE LET status == IF attempt < script.rate_limited THEN "429"
                       ELSE script.then
             rest == add_document(has_key, script, attempt + 1)
         IN  IF status = "429"
             THEN [statuses |-> << status >> \o rest.statuses,
                   result |-> rest.result]
             ELSE [statuses |-> << status >>,
                   result |-> IF status = "200" THEN "document" ELSE Null]

\* a synthesis that writes the profile whatever the extraction surfaced
SynthesisPayloadsWithProfile(user, extraction, additional_context) ==
    << Payload("Memory",
               "- **Gaps**: " \o JoinWith(extraction.knowledge_gaps, ", ")
               \o "\n- **Strengths**: " \o JoinWith(extraction.strengths, ", "),
               MemoryMetadata(user, extraction, additional_context)),
       Payload("Portfolio", "profile block", ProfileMetadata(user)) >>

\* memory_agent.py:102-145 and 154-156: the payloads of one synthesis; the
\* memory block lists the gaps and the strengths
SynthesisPayloads(user, extraction, additional_context) ==
    << Payload("Memory",
               "- **Gaps**: " \o JoinWith(extraction.knowledge_gaps, ", ")
               \o "\n- **Strengths**: " \o JoinWith(extraction.strengths, ", "),
               MemoryMetadata(user, extraction, additional_context)) >>
    \o (IF extraction.strengths # << >> \/ extraction.knowledge_gaps # << >>
        THEN << Payload("Portfolio", "profile block", ProfileMetadata(user)) >>
        ELSE << >>)

\* chat.py:395-402: the assistant message finalize_stream persists
AssistantMessage(task) == ChatMessage("assistant", task.response, task.sources)

\* finalize_stream that goes on to the synthesis when the commit failed
FinalizeSynthesizesUncommitted(why) ==
    /\ pc = "finalize"
    /\ chat_messages' =
          IF why = "commit" THEN chat_messages
          ELSE Append(chat_messages,
                      AssistantMessage(background[Len(background)]))
    /\ llm_calls' = IF why = "no_key" THEN llm_calls
                    ELSE Append(llm_calls, "memory")
    /\ pc' = "done"
    /\ UNCHANGED <<LmsTables, threads, http_response, triage, sm_posts, req, q_type, rc_material, search_query,
                   outcome, results, search_log, usage, c_data, prompt_args,
                   store, materials, sm_api_key, sm_writes, frames,
                   final_sources, prompt_messages, full_response, background>>

\* finalize_stream ends before anything is written to the store: the commit
\* of the assistant message raises (chat.py:401-402, caught at 415), no
\* OpenAI key is configured (memory_agent.py:75), the extraction call raises
\* or its answer is no JSON (85-92, caught at 147)
FinalizeWithoutMemory(why) ==
    /\ pc = "finalize"
    /\ chat_messages' =
          IF why = "commit" THEN chat_messages
          ELSE Append(chat_messages,
                      AssistantMessage(background[Len(background)]))
    /\ llm_calls' = IF why = "extraction" THEN Append(llm_calls, "memory")
                    ELSE llm_calls
    /\ pc' = "done"
    /\ UNCHANGED <<LmsTables, threads, http_response, triage, sm_posts, req, q_type, rc_material, search_query,
                   outcome, results, search_log, usage, c_data, prompt_args,
                   store, materials, sm_api_key, sm_writes, frames,
                   final_sources, prompt_messages, full_response, background>>

\* finalize_stream: the message is committed, the extraction succeeds and
\* its documents are handed to add_document, one call each; scripts tells
\* how the store answers each call
FinalizeWithMemory(extraction, scripts) ==
    /\ pc = "finalize"
    /\ LET payloads == SynthesisPayloads(req.user, extraction,
                                         AdditionalContext(q_type))
           calls == [i \in 1..Len(payloads) |->
                       LET r == add_document(sm_api_key, scripts[i], 0)
                       IN  [n |-> i, title |-> payloads[i].title,
                            content |-> payloads[i].content,
                            metadata |-> payloads[i].metadata,
                            statuses |-> r.statuses, result |-> r.result]]
           taken == SelectSeq(calls, LAMBDA c : c.result # Null)
       IN  /\ sm_writes' = sm_writes \o calls
           /\ store' = store \o [i \in 1..Len(taken) |->
                                    Stored(taken[i], taken[i].n)]
    /\ llm_calls' = Append(llm_calls, "memory")
    /\ chat_messages' =
          Append(chat_messages, AssistantMessage(background[Len(background)]))
    /\ pc' = "done"
    /\ UNCHANGED <<LmsTables, threads, http_response, triage, sm_posts, req, q_type, rc_material, search_query,
                   outcome, results, search_log, usage, c_data, prompt_args,
                   materials, sm_api_key, frames, final_sources,
                   prompt_messages, full_response, background>>

----------------------------------------------------------------------------

Next ==
    \/ \E r \in Requests, user \in Users \cup {"nobody@uni.edu"} :
          \/ ChatStream([r EXCEPT !.user = user])
          \/ ChatStreamRejected([r EXCEPT !.user = user])
    \/ \E label \in TriageLabels : Classify(Answered(label))
    \/ RetrieveNoHistory
    \/ RewriteCall
    \/ \E answer \in RewriteAnswers : RewriteReturn(answer)
    \/ \E kind \in RewriteFailures : RewriteFail(kind)
    \/ \E t \in TaskSet, http \in FanOutOutcomes : SearchStep(t, http)
    \/ Join
    \/ Ground
    \/ Compose
    \/ GenerateRaises
    \/ \E how \in StreamEnds, k \in 0..Len(ResponseTokens) : Stream(how, k)
    \/ \E why \in {"commit", "no_key", "extraction"} :
          FinalizeWithoutMemory(why)
    \/ \E e \in {x \in Extractions : x.knowledge_gaps = << >>},
          sc \in {x \in Scripts : x.rate_limited = 0
                                  /\ x.then \in {"200", "400"}} :
          FinalizeWithMemory(e, << sc, sc >>)

Spec == Init /\ [][Next]_vars

----------------------------------------------------------------------------
(* The pipeline of one user's requests against services that answer in     *)
(* every way they can: the triage model, the store on the course search    *)
(* and on add_document.                                                    *)

NextServices ==
    \/ \E r \in {x \in Requests : /\ x.user = UserA
                                  /\ x.query_type = Null
                                  /\ x.course_id = "c1"
                                  /\ x.material_id = Null
                                  /\ x.history.json_ok} :
          \E user \in {UserA, "nobody@uni.edu"} :
             \/ ChatStream([r EXCEPT !.user = user])
             \/ ChatStreamRejected([r EXCEPT !.user = user])
    \/ \E o \in TriageOutcomes : Classify(o)
    \/ RetrieveNoHistory
    \/ RewriteCall
    \/ \E answer \in RewriteAnswers : RewriteReturn(answer)
    \/ \E kind \in RewriteFailures : RewriteFail(kind)
    \/ \E t \in TaskSet :
          \E http \in IF t = "course" THEN HttpOutcomes ELSE {"200"} :
             SearchStep(t, http)
    \/ Join
    \/ Ground
    \/ Compose
    \/ GenerateRaises
    \/ \E how \in StreamEnds, k \in 0..Len(ResponseTokens) : Stream(how, k)
    \/ \E why \in {"commit", "no_key", "extraction"} :
          FinalizeWithoutMemory(why)
    \/ \E e \in Extractions, scripts \in [1..2 -> Scripts] :
          FinalizeWithMemory(e, scripts)

SpecServices == Init /\ [][NextServices]_vars

----------------------------------------------------------------------------
(* Grounding, source aggregation and prompt composition over larger        *)
(* contexts: generate is taken up where retrieve_context has returned, for *)
(* stores with many course documents and for long histories.               *)

\* the i-th course document of the user as sync indexes it; document 2 came
\* back in chunks, 3 belongs to no course, 4 has a file name and no title, 6
\* shares the title of 5, 7 is untitled and names the Material row m1
CourseDoc(i) ==
    [documentId |-> "k" \o Str(i),
     content |-> IF i = 2 THEN "" ELSE "text " \o Str(i),
     metadata |->
        CASE i = 3 -> [user_id |-> UserA, type |-> "material",
                       source_id |-> "s3", title |-> "Week 3"]
          [] i = 4 -> [user_id |-> UserA, type |-> "material",
                       source_id |-> "s4", course_id |-> "c1",
                       file_name |-> "week4.pdf"]
          [] i = 6 -> [user_id |-> UserA, type |-> "material",
                       source_id |-> "s6", course_id |-> "c1",
                       title |-> "Week 5"]
          [] i = 7 -> [user_id |-> UserA, type |-> "material",
                       source_id |-> "m1", course_id |-> "c1"]
          [] OTHER -> [user_id |-> UserA, type |-> "material",
                       source_id |-> "s" \o Str(i), course_id |-> "c1",
                       title |-> "Week " \o Str(i),
                       source_link |-> "link-" \o Str(i)],
     chunks |-> IF i = 2
                THEN << [content |-> "part a", metadata |-> [page |-> "1"]],
                        [content |-> "",       metadata |-> [page |-> "2"]],
                        [content |-> "part c", metadata |-> [page |-> "3"]],
                        [content |-> "part d", metadata |-> [page |-> "4"]] >>
                ELSE << >>]

\* a store of n course documents, two workspace documents with a title / a
\* file name of their own, and the seed documents
ComposeStore(n) ==
    [i \in 1..n |-> CourseDoc(i)]
    \o << [documentId |-> "g1", content |-> "digest of the inbox",
           metadata |-> [user_id |-> UserA, type |-> "assistant_knowledge",
                         title |-> "Inbox digest", category |-> "gmail"],
           chunks |-> << >>],
          [documentId |-> "g2", content |-> "notes of the upload",
           metadata |-> [user_id |-> UserA, type |-> "chat_attachment",
                         file_name |-> "notes.pdf"],
           chunks |-> << >>] >>
    \o SeedStore

\* a thread of n turns, the user and the assistant alternating
LongHistory(n) ==
    [i \in 1..n |->
       [role |-> IF i % 2 = 1 THEN "user" ELSE "assistant",
        content |-> "turn " \o Str(i)]]

\* requests over a growing store, and requests with a growing history, a
\* pasted text and an uploaded image
ComposeCases ==
    LET ComposeIntents ==
            {"academic_question", "general_chat", "notebook_analysis"}
    IN
    { [n |-> n,
       r |-> [user |-> UserA, message |-> "and singly linked?",
              history |-> [json_ok |-> TRUE, turns |-> << >>],
              query_type |-> qt, course_id |-> Null, material_id |-> mid,
              attachment_text |-> txt, file_type |-> Null]] :
        n \in 0..MaxCourseDocs, qt \in ComposeIntents,
        mid \in {Null, "m1", "n1"}, txt \in {Null, "pasted text"} }
    \cup
    { [n |-> 1,
       r |-> [user |-> UserA, message |-> "and singly linked?",
              history |-> [json_ok |-> TRUE, turns |-> LongHistory(h)],
              query_type |-> qt, course_id |-> Null, material_id |-> mid,
              attachment_text |-> txt, file_type |-> ft]] :
        h \in 0..MaxTurns, qt \in ComposeIntents, mid \in {Null, "m1"},
        txt \in {Null, "pasted text"}, ft \in {Null, "image/png"} }

\* generate at chat.py:199: the intent was given with the request, the
\* rewriter (if the history called for it) fell back to the query, every
\* search answered
InitCompose ==
    \E c \in ComposeCases :
       LET r == c.r
           qt == EffectiveType(r.query_type, "academic_question")
           mat == RetrievalMaterial(qt, r.material_id)
           docs == ComposeStore(c.n)
           searched == {t \in TaskSet : IsSearched(t, qt, mat)}
           rewritten == ShortTermHistory(r) # << >>
           answered ==
               [t \in TaskSet |->
                  IF t \in searched
                  THEN Search(TRUE, docs,
                              SearchCall(t, r.user, FallbackQuery(r.message),
                                         r.course_id, mat),
                              "200")
                  ELSE Returned(EmptyResponse)]
       IN  /\ pc = "ground"
           /\ req = r
           /\ q_type = qt
           /\ rc_material = mat
           /\ search_query = FallbackQuery(r.message)
           /\ outcome = [t \in TaskSet |->
                           IF t \in searched THEN "200" ELSE "skipped"]
           /\ results = answered
           /\ search_log = {SearchCall(t, r.user, FallbackQuery(r.message),
                                       r.course_id, mat) : t \in searched}
           /\ llm_calls = << "triage" >>
                          \o (IF rewritten THEN << "rewrite" >> ELSE << >>)
           /\ usage = (IF rewritten
                       THEN << UsageEntry(r.user, "rewrite_input") >>
                       ELSE << >>)
                      \o << UsageEntry(r.user, "sm_request") >>
           /\ c_data = Combine(answered, FallbackQuery(r.message))
           /\ prompt_args = NoPrompt
           /\ store = docs
           /\ materials = MaterialRows
           /\ sm_api_key = TRUE
           /\ sm_writes = << >>
           /\ frames = << ThreadFrame, Thinking("Classifying intent..."),
                          RetrievalNotice(qt) >>
           /\ final_sources = << >>
           /\ prompt_messages = << >>
           /\ full_response = ""
           /\ background = << >>
           /\ chat_messages = << ChatMessage("user", r.message, << >>) >>
           /\ triage = Triaged(Answered("academic_question"))
           /\ threads = {[ThreadRow(ThreadId, r.user, r.message,
                                    ThreadMaterial(r.query_type,
                                                   r.material_id))
                            EXCEPT !.updated_at = 1]}
           /\ http_response = StreamingResponse
           /\ users = {UserRow(u) : u \in Users}
           /\ courses = SeedCourses
           /\ user_courses = SeedEnrolments
           /\ sm_posts = [t \in TaskSet |->
                            IF t \in searched
                            THEN SearchPosts(TRUE, SearchCall(t, r.user,
                                                FallbackQuery(r.message),
                                                r.course_id, mat))
                            ELSE << >>]

NextCompose ==
    \/ Ground
    \/ Compose

SpecCompose == InitCompose /\ [][NextCompose]_vars

\* the same requests followed to the end of the exchange: the completion
\* streams to its end and finalize_stream persists the assistant message
NextPersist ==
    \/ Ground
    \/ Compose
    \/ Stream("complete", Len(ResponseTokens))
    \/ FinalizeWithoutMemory("extraction")

SpecPersist == InitCompose /\ [][NextPersist]_vars

----------------------------------------------------------------------------
(* The thread endpoints: chat_stream up to the first frame of its stream,  *)
(* get_thread_messages and delete_thread, served for several users over    *)
(* the threads earlier exchanges left in the tables.                       *)

MaxClock == 4

\* a ChatMessage row of a given thread
ThreadMessage(thread_id, role, content) ==
    [ChatMessage(role, content, << >>) EXCEPT !.thread_id = thread_id]

\* one thread of each registered user, each with one exchange
SeedThreads ==
    { [ThreadRow("t-a", UserA, "what is recursion?", Null)
          EXCEPT !.updated_at = 1],
      [ThreadRow("t-b", UserB, "what is a heap?", Null)
          EXCEPT !.updated_at = 2] }

SeedMessages ==
    << ThreadMessage("t-a", "user", "what is recursion?"),
       ThreadMessage("t-a", "assistant", "A function that calls itself."),
       ThreadMessage("t-b", "user", "what is a heap?"),
       ThreadMessage("t-b", "assistant", "A tree kept in an array.") >>

\* the thread ids a form can carry: the default, the ids of the stored
\* threads, an id that names no thread
FormThreadIds == {"new", "t-a", "t-b", "ghost"}

Callers == Users \cup {"nobody@uni.edu"}

\* the requests of the thread endpoints
ThreadRequests ==
    [op : {"chat_stream"}, user : Callers, thread_id : FormThreadIds,
     message : {"and singly linked?"},
     query_type : {Null, "notebook_analysis"}, material_id : {"m1"}]
    \cup
    [op : {"get_thread_messages", "delete_thread"}, user : Callers,
     thread_id : FormThreadIds \ {"new"}]

\* the filter of chat.py:68 and 90 without the owner
OwnedThreadAnyOwner(rows, thread_id, user) ==
    {t \in rows : t.id = thread_id}

\* chat.py:68, 90: the thread of that id that belongs to the user
OwnedThread(rows, thread_id, user) ==
    {t \in rows : t.id = thread_id /\ t.user_id = user}

\* chat.py:73-81: the body of get_thread_messages
MessagesBody(rows, thread_id) ==
    LET of_thread == SelectSeq(rows, LAMBDA m : m.thread_id = thread_id)
    IN  [i \in 1..Len(of_thread) |->
           [role |-> of_thread[i].role, content |-> of_thread[i].content,
            sources |-> of_thread[i].sources.cards]]

\* the variables of generate and of the services it calls, which the
\* thread endpoints leave alone
PipelineVars ==
    <<pc, q_type, rc_material, search_query, outcome, results, search_log,
      llm_calls, usage, c_data, prompt_args, store, materials, sm_api_key,
      sm_writes, final_sources, prompt_messages, full_response, background,
      triage, sm_posts>>

InitThreads ==
    /\ pc = "idle"
    /\ req = NoRequest
    /\ q_type = Null
    /\ rc_material = Null
    /\ search_query = Null
    /\ outcome = [t \in TaskSet |-> "none"]
    /\ results = [t \in TaskSet |-> Returned(EmptyResponse)]
    /\ search_log = {}
    /\ llm_calls = << >>
    /\ usage = << >>
    /\ c_data = EmptyContext
    /\ prompt_args = NoPrompt
    /\ store = SeedStore
    /\ materials = MaterialRows
    /\ sm_api_key = TRUE
    /\ sm_writes = << >>
    /\ frames = << >>
    /\ final_sources = << >>
    /\ prompt_messages = << >>
    /\ full_response = ""
    /\ background = << >>
    /\ chat_messages = SeedMessages
    /\ triage = NoTriage
    /\ sm_posts = [t \in TaskSet |-> << >>]
    /\ threads = SeedThreads
    /\ http_response = NoResponse
    /\ users = {UserRow(u) : u \in Users}
    /\ courses = SeedCourses
    /\ user_courses = SeedEnrolments

\* chat.py:115-118, 65-66, 87-88: no User row of that email
UserNotFound(r) ==
    /\ ~Registered(r.user)
    /\ req' = r
    /\ http_response' =
          Response(404, IF r.op = "chat_stream"
                        THEN "User registration required."
                        ELSE "User not found", << >>)
    /\ UNCHANGED <<threads, chat_messages, frames>>
    /\ UNCHANGED PipelineVars
    /\ UNCHANGED LmsTables

\* chat.py:100-174: the thread is resolved, the user message is committed
\* with the time of the thread, and the stream opens with the thread id
ChatStreamThread(r) ==
    /\ r.op = "chat_stream"
    /\ Registered(r.user)
    /\ UtcNow(threads) <= MaxClock
    /\ req' = r
    /\ LET resolved == ResolveThread(threads, r.thread_id, r.user, r.message,
                                    ThreadMaterial(r.query_type,
                                                   r.material_id))
       IN  /\ threads' = Touch(resolved.rows, resolved.thread_id)
           /\ chat_messages' =
                 Append(chat_messages,
                        ThreadMessage(resolved.thread_id, "user", r.message))
           /\ frames' = << [ThreadFrame EXCEPT !.text = resolved.thread_id] >>
    /\ http_response' = StreamingResponse
    /\ UNCHANGED PipelineVars
    /\ UNCHANGED LmsTables

\* chat.py:62-81
GetThreadMessages(r) ==
    /\ r.op = "get_thread_messages"
    /\ Registered(r.user)
    /\ req' = r
    /\ http_response' =
          IF OwnedThread(threads, r.thread_id, r.user) = {}
          THEN Response(403, "Not authorized", << >>)
          ELSE Response(200, Null, MessagesBody(chat_messages, r.thread_id))
    /\ UNCHANGED <<threads, chat_messages, frames>>
    /\ UNCHANGED PipelineVars
    /\ UNCHANGED LmsTables

\* chat.py:83-97
DeleteThread(r) ==
    /\ r.op = "delete_thread"
    /\ Registered(r.user)
    /\ req' = r
    /\ LET owned == OwnedThread(threads, r.thread_id, r.user)
       IN  IF owned = {}
           THEN /\ http_response' = Response(403, "Not authorized", << >>)
                /\ UNCHANGED <<threads, chat_messages>>
           ELSE /\ chat_messages' =
                      SelectSeq(chat_messages,
                                LAMBDA m : m.thread_id # r.thread_id)
                /\ threads' = threads \ owned
                /\ http_response' = Response(200, "deleted", << >>)
    /\ UNCHANGED frames
    /\ UNCHANGED PipelineVars
    /\ UNCHANGED LmsTables

NextThreads ==
    \E r \in ThreadRequests :
       \/ UserNotFound(r)
       \/ ChatStreamThread(r)
       \/ GetThreadMessages(r)
       \/ DeleteThread(r)

SpecThreads == InitThreads /\ [][NextThreads]_vars

----------------------------------------------------------------------------
(* LMSSyncService.sync_all_courses, phase 1: the course list of the        *)
(* platform is fetched and the enrolment of the user is brought in line.   *)

MaxSyncClock == 2

\* the order in which Google Classroom lists the courses
ListingOrder == << "c1", "c2", "c3" >>

\* what Google Classroom can list for a user: c1 under its name or
\* renamed, c2, and c3, which no sync has seen yet
Catalog ==
    { [id |-> "c1", name |-> "Algorithms"],
      [id |-> "c1", name |-> "Algorithms (Fall)"],
      [id |-> "c2", name |-> "Databases"],
      [id |-> "c3", name |-> "Networks"] }

\* the course lists get_courses can return: any of the courses, none
\* twice
CourseLists ==
    LET Position(id) == CHOOSE k \in 1..Len(ListingOrder) : ListingOrder[k] = id
    IN  UNION { { l \in [1..n -> Catalog] :
                    \A i, j \in 1..n :
                       i < j => Position(l[i].id) < Position(l[j].id) } :
                n \in 0..Len(ListingOrder) }

\* sync_service.py:52-60: how the fetch of the course list ends
PlatformAnswers ==
    { [kind |-> k, courses_data |-> << >>] : k \in {"timeout", "error"} }
    \cup { [kind |-> "courses", courses_data |-> l] : l \in CourseLists }

\* datetime.utcnow(): later than every time a row carries
SyncNow ==
    1 + (CHOOSE n \in {r.last_synced : r \in users \cup courses} \cup {0} :
            \A r \in users \cup courses : r.last_synced <= n)

\* sync_service.py:36-47: the User row, created when it is missing
EnsureUser(rows, email) ==
    IF \E u \in rows : u.email = email THEN rows
    ELSE rows \cup {UserRow(email)}

\* sync_service.py:63-82: the loop over courses_data; tables holds the
\* Course rows and the association rows
RECURSIVE Upsert(_, _, _, _)
Upsert(courses_data, tables, email, now) ==
    IF courses_data = << >> THEN tables
    ELSE LET c == Head(courses_data)
             known == \E row \in tables.courses : row.id = c.id
             rows ==
                 IF known
                 THEN { IF row.id = c.id
                        THEN [row EXCEPT !.name = c.name, !.last_synced = now]
                        ELSE row : row \in tables.courses }
                 ELSE tables.courses
                      \cup { [CourseRow(c.id, c.name, "Loading...",
                                        "Google Classroom")
                                 EXCEPT !.last_synced = now] }
         IN  Upsert(Tail(courses_data),
                    [courses      |-> rows,
                     user_courses |-> tables.user_courses
                                      \cup {Enrolment(email, c.id)}],
                    email, now)

PlatformOf(rows, course_id) ==
    (CHOOSE row \in rows : row.id = course_id).platform

\* the association rows line 95 removes: the Google Classroom courses of
\* the user that the list does not name
Stale(courses_data, tables, email) ==
    { e \in tables.user_courses :
        /\ e.user_id = email
        /\ PlatformOf(tables.courses, e.course_id) = "Google Classroom"
        /\ \A i \in 1..Len(courses_data) : courses_data[i].id # e.course_id }

\* Cleanup without the guard on the length of the list
CleanupUnguarded(courses_data, tables, email) ==
    [tables EXCEPT !.user_courses = @ \ Stale(courses_data, tables, email)]

\* sync_service.py:84-98: the cleanup runs only for a list that holds a
\* course
Cleanup(courses_data, tables, email) ==
    IF Len(courses_data) > 0
    THEN [tables EXCEPT !.user_courses = @ \ Stale(courses_data, tables, email)]
    ELSE tables

\* sync_service.py:25-102: phase 1 of a sync of the user with that email
SyncAllCourses(email, answer) ==
    /\ SyncNow <= MaxSyncClock
    /\ IF answer.kind # "courses"
       THEN /\ users' = EnsureUser(users, email)
            /\ UNCHANGED <<courses, user_courses>>
       ELSE LET synced ==
                    Cleanup(answer.courses_data,
                            Upsert(answer.courses_data,
                                   [courses |-> courses,
                                    user_courses |-> user_courses],
                                   email, SyncNow),
                            email)
            IN  /\ courses' = synced.courses
                /\ user_courses' = synced.user_courses
                /\ users' = { IF u.email = email
                              THEN [u EXCEPT !.last_synced = SyncNow] ELSE u :
                              u \in EnsureUser(users, email) }
    /\ UNCHANGED PipelineVars
    /\ UNCHANGED <<req, threads, http_response, chat_messages, frames>>

NextSync ==
    \E email \in Callers, answer \in PlatformAnswers :
       SyncAllCourses(email, answer)

SpecSync == Init /\ [][NextSync]_vars

----------------------------------------------------------------------------
(* Properties of the chat pipeline                                         *)

\* retrieve_context has returned its dictionary to generate
Retrieved == c_data.rewritten_query # Null

\* the positions of a request before the gather of retrieve_context is
\* awaited; a rejected request never reaches it
BeforeFanOut == {"idle", "rejected", "classify", "retrieve", "rewriting"}

\* the entries of course_context that grounding injected: they carry no
\* documentId, which flatten_v3 puts on every search chunk
IsInjected(e) == "documentId" \notin DOMAIN e.metadata

\* the primary document of the request in flight
Primary == ResolvePrimary(materials, req.material_id)

PrimaryResolved ==
    Truthy(req.material_id) /\ Primary # NoRow /\ Truthy(Primary.content)

\* C1: whenever material_id resolves to a stored document with non-empty
\* content, the first element of course_context when the prompt is composed
\* is the primary document's content, whatever the search returned and
\* however many attachments the document has.
C1_PrimaryIsFirst ==
    (prompt_args.built /\ PrimaryResolved)
        => /\ prompt_args.retrieved_chunks # << >>
           /\ prompt_args.retrieved_chunks[1].content = Primary.content

\* the result key of c_data a task of the gather feeds
ResultKey(t) ==
    CASE t = "memory" -> "memories"
      [] t = "assistant" -> "assistant_knowledge"
      [] t = "chat" -> "chat_assets"
      [] t = "profile" -> "profile"

\* C2: if the POST of the course-partition search raises, retrieve_context
\* still returns; the course partition is empty and the memory, workspace
\* knowledge and profile partitions hold what their own searches answered.
C2_FailureIsolation ==
    (outcome["course"] = "exception" /\ pc \notin {"fanout"})
        => /\ Retrieved
           /\ flatten_v3(results["course"].value) = << >>
           /\ \A t \in {"memory", "assistant", "profile"} :
                 outcome[t] = "200" =>
                    /\ c_data[ResultKey(t)] = flatten_v3(results[t].value)
                    /\ pc \in {"ground", "compose", "stream", "finalize"} =>
                          results[t].value =
                             StoreResponse(store,
                                SearchCall(t, req.user, search_query,
                                           req.course_id, rc_material))

C2_Witness ==
    /\ pc = "ground"
    /\ outcome["course"] = "exception"
    /\ c_data.memories # << >>
    /\ c_data.assistant_knowledge # << >>
    /\ c_data.profile # << >>

\* C3: for intent general_chat no search is issued for the course, memory,
\* workspace-knowledge and session-asset partitions, and the profile search
\* is issued in every retrieval whatever the intent.
C3_GeneralChatSkipsSearches ==
    /\ q_type = "general_chat" =>
          \A c \in search_log :
             c.task \notin {"course", "memory", "assistant", "chat"}
    /\ (pc \notin BeforeFanOut /\ pc # "fanout") =>
          \E c \in search_log : c.task = "profile"

C3_Witness ==
    /\ q_type = "general_chat"
    /\ pc = "ground"
    /\ \E c \in search_log : c.task = "profile"
    /\ \A t \in {"course", "memory", "assistant", "chat"} :
          outcome[t] = "skipped"

\* C4: for a request whose effective intent is general_chat the
\* course_context, memory, workspace-knowledge and session-asset lists handed
\* to prompt composition are all empty, whatever course_id or material_id
\* the request carries.
C4_GeneralChatNoDocuments ==
    (prompt_args.built /\ prompt_args.query_type = "general_chat")
        => /\ prompt_args.retrieved_chunks = << >>
           /\ prompt_args.memories = << >>
           /\ prompt_args.assistant_knowledge = << >>
           /\ prompt_args.chat_assets = << >>

C6_MemoryRecordsTagged ==
    \A i \in 1..Len(sm_writes) :
       sm_writes[i].title = "Memory" =>
          Get(sm_writes[i].metadata, "type") = MemoryType

\* C7: every search retrieve_context issues carries a filter whose top-level
\* AND requires user_id to equal the requesting user's id.
C7_EverySearchUserScoped ==
    \A c \in search_log :
       \E i \in 1..Len(c.filters.AND) :
          c.filters.AND[i] = Cond("user_id", req.user, FALSE)

C7_Witness ==
    /\ pc = "ground"
    /\ {c.task : c \in search_log} = TaskSet

\* C8: the primary document and the attachment documents that grounding
\* injects into course_context belong to the requesting user.
C8_GroundingUserScoped ==
    \A i \in 1..Len(c_data.course_context) :
       IsInjected(c_data.course_context[i]) =>
          RowWithId(materials, c_data.course_context[i].metadata.id).user_id
             = req.user

\* C9: no partition search is issued before query rewriting has completed,
\* and the query it produced is the search key of every course, focused,
\* memory, workspace and session-asset search of the call.
C9_RewriteBeforeSearch ==
    /\ pc \in BeforeFanOut =>
          /\ search_log = {}
          /\ \A t \in TaskSet : outcome[t] = "none"
    /\ \A c \in search_log :
          c.task # "profile" =>
             /\ c.query = search_query
             /\ c.query \in {req.message}
                            \cup {Strip(a) : a \in RewriteAnswers}
    /\ (search_log # {} /\ ShortTermHistory(req) # << >>) =>
          \E i \in 1..Len(llm_calls) : llm_calls[i] = "rewrite"

C9_Witness ==
    /\ pc = "ground"
    /\ search_query # req.message
    /\ {c.task : c \in search_log} = TaskSet
    /\ \A c \in search_log : c.task # "profile" => c.query = search_query

\* C10: with an empty history the rewriter returns the query unchanged,
\* makes no completion call and writes no usage-ledger entry.
C10_RewriteShortCircuit ==
    (ShortTermHistory(req) = << >> /\ pc \notin {"idle", "classify", "retrieve"})
        => /\ search_query = req.message
           /\ \A i \in 1..Len(llm_calls) : llm_calls[i] # "rewrite"
           /\ \A i \in 1..Len(usage) :
                 usage[i].kind \notin {"rewrite_input", "rewrite_output"}

C10_Witness ==
    /\ pc = "fanout"
    /\ ShortTermHistory(req) = << >>
    /\ search_query = req.message
    /\ usage = << UsageEntry(req.user, "sm_request") >>

\* the rewrite step of the request in flight was entered and did not hand
\* back a rewritten query: no output tokens were logged for it
RewriteFailed ==
    /\ ShortTermHistory(req) # << >>
    /\ pc \notin BeforeFanOut
    /\ \A i \in 1..Len(usage) : usage[i].kind # "rewrite_output"

RECURSIVE FirstPrefixedRow(_, _, _)
FirstPrefixedRow(rows, material_id, i) ==
    IF i > Len(GroundingPrefixes) THEN NoRow
    ELSE IF \E r \in rows : r.id = GroundingPrefixes[i] \o material_id
         THEN CHOOSE r \in rows : r.id = GroundingPrefixes[i] \o material_id
         ELSE FirstPrefixedRow(rows, material_id, i + 1)

\* the request names no row by its exact id and a row by a prefixed id
PrefixResolved ==
    /\ Truthy(req.material_id)
    /\ \A r \in materials : r.id # req.material_id
    /\ FirstPrefixedRow(materials, req.material_id, 1) # NoRow
    /\ Truthy(FirstPrefixedRow(materials, req.material_id, 1).content)

\* C12: when material_id names no row by its exact id but a row exists whose
\* id is a known prefix (ann_att_, ann_, drive_file_) followed by
\* material_id, grounding resolves to the first such row in the listed
\* order and its content is course_context[0] when the prompt is composed.
C12_PrefixCascadeFirst ==
    (prompt_args.built /\ PrefixResolved)
        => /\ prompt_args.retrieved_chunks # << >>
           /\ prompt_args.retrieved_chunks[1].content =
                 FirstPrefixedRow(materials, req.material_id, 1).content
           /\ Get(prompt_args.retrieved_chunks[1].metadata, "id") =
                 FirstPrefixedRow(materials, req.material_id, 1).id

----------------------------------------------------------------------------
(* Properties of prompt composition                                        *)

\* sub in s
Contains(s, sub) ==
    \E i \in 1..(Len(s) - Len(sub) + 1) : SubSeq(s, i, i + Len(sub) - 1) = sub

\* s.count(sub) for a sub that cannot overlap itself
Occurrences(s, sub) ==
    Cardinality({i \in 1..(Len(s) - Len(sub) + 1) :
                    SubSeq(s, i, i + Len(sub) - 1) = sub})

Composed == prompt_messages # << >>

SystemText == prompt_messages[1].content

FinalParts == prompt_messages[Len(prompt_messages)].content

QueryPart == [type |-> "text", text |-> req.message]

\* C13: the messages build_prompt returns are [system, ...history, user]:
\* exactly one system message, first and non-empty; every message between
\* the first and the last comes from the history; the last message has role
\* user and its final part is the literal query text.
C13_MessageOrder ==
    Composed =>
       /\ Len(prompt_messages) >= 2
       /\ prompt_messages[1].role = "system"
       /\ SystemText # ""
       /\ \A i \in 2..Len(prompt_messages) : prompt_messages[i].role # "system"
       /\ Len(prompt_messages) - 2 <= Len(ShortTermHistory(req))
       /\ \A i \in 2..(Len(prompt_messages) - 1) :
             \E j \in 1..Len(ShortTermHistory(req)) :
                prompt_messages[i].content = ShortTermHistory(req)[j].content
       /\ prompt_messages[Len(prompt_messages)].role = "user"
       /\ FinalParts # << >>
       /\ FinalParts[Len(FinalParts)] = QueryPart

C13_Witness ==
    /\ pc = "stream"
    /\ Len(ShortTermHistory(req)) >= 2
    /\ Len(prompt_messages) = Len(ShortTermHistory(req)) + 2
    /\ Len(FinalParts) = 3

\* the academic context as build_prompt rendered it for the request
Rendered ==
    KnowledgeBase(prompt_args.retrieved_chunks, prompt_args.attachment_text,
                  prompt_args.material_id)

\* C14: for intent notebook_analysis the rendered academic-context block is
\* the first part of the final user message, before the image and the
\* query, and it is not in the system message; for every other intent the
\* final user message is the image (if any) and the query, nothing else.
C14_GroundingInUserTurn ==
    Composed =>
       IF q_type = "notebook_analysis"
       THEN /\ Len(FinalParts) >= 2
            /\ FinalParts[1].type = "text"
            /\ FinalParts[1].text =
                  "# [CRITICAL] VITAL GROUNDING (ACADEMIC VAULT):\n"
                  \o Rendered \o "\n\n---"
            /\ \A i \in 2..Len(FinalParts) :
                  FinalParts[i].type = "text" => FinalParts[i] = QueryPart
            /\ ~Contains(SystemText, Rendered)
       ELSE /\ \A i \in 1..Len(FinalParts) :
                  FinalParts[i].type = "text" => FinalParts[i] = QueryPart
            /\ Len(FinalParts) = IF Truthy(prompt_args.base64_image) THEN 2 ELSE 1

C14_Witness ==
    /\ pc = "stream"
    /\ q_type = "notebook_analysis"
    /\ Len(FinalParts) = 3
    /\ FinalParts[2].type = "image_url"
    /\ Contains(FinalParts[1].text, "DOCUMENT: Lecture 3 [c1]")

\* C15: the system template is chosen by the intent alone: general_chat
\* gives the companion template, which carries no citation-enforcing text;
\* notebook_analysis gives the analysis template with its
\* no-external-knowledge rule; every other intent gives the tutor template;
\* whatever the chunks, the history, the pasted text and the image are, and
\* the templates are never mixed.
C15_TemplateByIntent ==
    Composed =>
       /\ Occurrences(SystemText, "# IDENTITY: ") = 1
       /\ CASE q_type = "general_chat" ->
                 /\ StartsWith(SystemText, "# IDENTITY: FIWB Digital Companion")
                 /\ ~Contains(SystemText, "MUST have an inline citation")
                 /\ ~Contains(SystemText, "NEVER use external training data")
            [] q_type = "notebook_analysis" ->
                 /\ StartsWith(SystemText, "# IDENTITY: NotebookCore")
                 /\ Contains(SystemText, "NEVER use external training data")
                 /\ Contains(SystemText, "MUST have an inline citation")
            [] OTHER ->
                 /\ StartsWith(SystemText,
                               "# IDENTITY: FIWB Institutional Intelligence")
                 /\ Contains(SystemText, "# OPERATIONAL DIRECTIVES:")
                 /\ ~Contains(SystemText, "NEVER use external training data")

C15_Witness ==
    /\ pc = "stream"
    /\ q_type = "general_chat"
    /\ prompt_args.retrieved_chunks # << >>
    /\ Truthy(prompt_args.attachment_text)
    /\ Truthy(prompt_args.base64_image)
    /\ prompt_args.history # << >>

\* C16: with a history of n turns build_prompt appends exactly the last
\* min(10, n) turns, in their order, each with the content and the role its
\* turn has.
C16_HistoryWindow ==
    Composed =>
       LET h == ShortTermHistory(req)
           n == Len(h)
           m == IF n < 10 THEN n ELSE 10
       IN  /\ Len(prompt_messages) = m + 2
           /\ \A k \in 1..m :
                 prompt_messages[1 + k] =
                    [role |-> h[n - m + k].role, content |-> h[n - m + k].content]

C16_Witness ==
    /\ pc = "stream"
    /\ Len(ShortTermHistory(req)) > HistoryCap
    /\ Len(prompt_messages) = HistoryCap + 2
    /\ prompt_messages[2].content = "turn 3"

----------------------------------------------------------------------------
(* Properties of source aggregation                                        *)

\* the chunks the cards of the request are built from
Chunks == SourceItems(c_data)

\* the computed key of the i-th chunk
KeyOf(i, pick) ==
    SourceKey(Chunks[i].item.metadata,
              SourceMaterialId(Chunks[i].item.metadata, c_data.course_context,
                               materials, pick),
              materials)

\* the chunks with the key of the i-th chunk, in list order
SameKey(i, pick) ==
    SelectSeq([j \in 1..Len(Chunks) |-> j],
              LAMBDA j : KeyOf(j, pick) = KeyOf(i, pick))

\* the chunks that are the first of their key, in list order
FirstOfKey(pick) ==
    SelectSeq([j \in 1..Len(Chunks) |-> j],
              LAMBDA j : \A k \in 1..(j - 1) : KeyOf(k, pick) # KeyOf(j, pick))

\* the card the i-th chunk gives when it creates one, with the non-empty
\* ones of the given snippets joined
CardFrom(i, pick, contents) ==
    LET x == Chunks[i]
        mat_id == SourceMaterialId(x.item.metadata, c_data.course_context,
                                   materials, pick)
    IN  FinalCard([NewCard(x, KeyOf(i, pick), mat_id)
                      EXCEPT !.snippets = contents])

Aggregated == pc = "stream" /\ q_type # "general_chat"

\* C17: all chunks with the same computed key give exactly one card; the
\* card is the one the first chunk of the key creates, and it merges the
\* snippets of the first three chunks of the key and of no other.
C17_DedupIdempotence ==
    Aggregated =>
       \E pick \in ChildPicks(materials, c_data) :
          /\ Len(final_sources) = Len(FirstOfKey(pick))
          /\ \A i \in 1..Len(Chunks) :
                Cardinality({j \in 1..Len(final_sources) :
                                final_sources[j].title = KeyOf(i, pick)}) = 1
          /\ \A j \in 1..Len(final_sources) :
                LET first == FirstOfKey(pick)[j]
                    three == Take(SameKey(first, pick), 3)
                IN  final_sources[j] =
                       CardFrom(first, pick,
                                [k \in 1..Len(three) |->
                                   Chunks[three[k]].item.content])

C17_Witness ==
    /\ Aggregated
    /\ \E j \in 1..Len(final_sources) :
          /\ final_sources[j].title = "Week 2 [c1]"
          /\ final_sources[j].snippet =
                "part a\n--- [Next Section] ---\npart c"
    /\ \E pick \in ChildPicks(materials, c_data) :
          \E i \in 1..Len(Chunks) : Len(SameKey(i, pick)) > 3

\* the SOURCES frames sent so far
SourcesFrames == SelectSeq(frames, LAMBDA f : f.event = "SOURCES")

\* C18: the source list sent to the client has at most 15 cards and is the
\* first 15 cards in insertion order: the keys in the order of their first
\* chunk, the partitions visited in the order course_context, workspace
\* knowledge, session assets, memory and each partition in list order.
C18_FirstFifteenSources ==
    Aggregated =>
       \E pick \in ChildPicks(materials, c_data) :
          LET first == FirstOfKey(pick)
              sent == IF Len(first) < 15 THEN Len(first) ELSE 15
          IN  /\ Chunks = [i \in 1..Len(c_data.course_context) |->
                             [prefix |-> "(books) ",
                              item |-> c_data.course_context[i]]]
                          \o [i \in 1..Len(c_data.assistant_knowledge) |->
                                [prefix |-> "(mail) ",
                                 item |-> c_data.assistant_knowledge[i]]]
                          \o [i \in 1..Len(c_data.chat_assets) |->
                                [prefix |-> "(clip) ",
                                 item |-> c_data.chat_assets[i]]]
                          \o [i \in 1..Len(c_data.memories) |->
                                [prefix |-> "(brain) ",
                                 item |-> c_data.memories[i]]]
              /\ first # << >> =>
                    /\ Len(SourcesFrames) = 1
                    /\ Len(SourcesFrames[1].sources) = sent
                    /\ \A k \in 1..sent :
                          /\ SourcesFrames[1].sources[k].title =
                                KeyOf(first[k], pick)
                          /\ SourcesFrames[1].sources[k].display =
                                Chunks[first[k]].prefix \o KeyOf(first[k], pick)
              /\ first = << >> => SourcesFrames = << >>

C18_Witness ==
    /\ Aggregated
    /\ Len(final_sources) > SourceCap
    /\ Len(SourcesFrames) = 1
    /\ Len(SourcesFrames[1].sources) = SourceCap
    /\ c_data.memories # << >>

----------------------------------------------------------------------------
(* Properties of the event stream                                          *)

\* C19: a response stream carries at most one SOURCES frame, the SOURCES
\* frame precedes every token frame, and for intent general_chat no source
\* is aggregated and no SOURCES frame is sent.
C19_SourcesOnceBeforeTokens ==
    /\ Len(SourcesFrames) <= 1
    /\ \A i, j \in 1..Len(frames) :
          (frames[i].event = "SOURCES" /\ frames[j].event = "TOKEN") => i < j
    /\ q_type = "general_chat" =>
          /\ SourcesFrames = << >>
          /\ final_sources = << >>

C19_Witness ==
    /\ pc = "done"
    /\ Len(SourcesFrames) = 1
    /\ \E j \in 1..Len(frames) : frames[j].event = "TOKEN"
    /\ frames[Len(frames)].event = "TOKEN"

\* C20: when the client disconnects mid-stream, after some token frames and
\* before the completion has ended, the partial response is handed to
\* finalize_stream, which persists it as the assistant message of the thread
\* and triggers memory synthesis.
C20_DisconnectStillFinalizes ==
    pc = "disconnected" =>
       \E i \in 1..Len(background) :
          /\ background[i].task = "finalize_stream"
          /\ background[i].response = full_response

----------------------------------------------------------------------------
(* Properties of failure handling                                          *)

\* the frames that carry the fallback text
FallbackFrames ==
    SelectSeq(frames, LAMBDA f :
                 /\ f.event = "TOKEN"
                 /\ StartsWith(f.token, "\n\n[Neural Link RESET_v3]"))

\* C21: an exception raised during generation is caught at the top of the
\* generator: exactly one fallback token frame is sent after the failure, it
\* is the last frame, the stream is closed (no frame and no step follows) and
\* nothing is handed to the caller but the frames.
C21_FailureSendsOneFallback ==
    /\ [](pc = "error" =>
             /\ Len(FallbackFrames) = 1
             /\ frames[Len(frames)] = FallbackFrames[1])
    /\ [](pc # "error" => FallbackFrames = << >>)
    /\ [][pc = "error" => (pc' = "error" /\ frames' = frames)]_vars

C21_Witness ==
    /\ pc = "error"
    /\ full_response # ""
    /\ frames[Len(frames) - 1].event = "TOKEN"
    /\ Len(FallbackFrames) = 1

----------------------------------------------------------------------------
(* Properties of the services: memory synthesis, triage, the store client  *)

\* the extraction calls of the memory synthesis so far
MemoryCalls == SelectSeq(llm_calls, LAMBDA c : c = "memory")

\* C22: memory synthesis never raises into its caller and never retries:
\* finalize_stream always ends, and within one synthesis the extraction call
\* is made at most once and each store write sends at most one request.
C22_SynthesisNeverRetries ==
    /\ Len(MemoryCalls) <= 1
    /\ \A i \in 1..Len(sm_writes) : Len(sm_writes[i].statuses) <= 1

C24_WriteRetriesBounded ==
    \A i \in 1..Len(sm_writes) :
       LET w == sm_writes[i]
           n == Len(w.statuses)
       IN  /\ n <= MaxRetries
           /\ \A j \in 1..(n - 1) : w.statuses[j] = "429"
           /\ sm_api_key <=> n >= 1
           /\ w.result \in {"document", Null}
           /\ w.result # Null <=> (n >= 1 /\ w.statuses[n] = "200")
           /\ (n >= 1 /\ w.statuses[n] = "429") => n = MaxRetries

C24_Witness ==
    /\ pc = "done"
    /\ \E i \in 1..Len(sm_writes) :
          /\ sm_writes[i].statuses = << "429", "429", "429" >>
          /\ sm_writes[i].result = Null
    /\ \E i \in 1..Len(sm_writes) :
          /\ sm_writes[i].statuses = << "429", "401" >>
          /\ sm_writes[i].result = Null

\* C25: one search call sends at most one request and raises nothing; when
\* the answer is not a 200, or the POST raises, or no key is configured, the
\* call returns the empty result set.
C25_SearchNeverRetries ==
    \A t \in TaskSet :
       /\ Len(sm_posts[t]) <= 1
       /\ ~results[t].raised
       /\ outcome[t] \in (HttpOutcomes \ {"200"}) \cup {"nokey"} =>
             results[t] = Returned(EmptyResponse)
       /\ outcome[t] \in HttpOutcomes => Len(sm_posts[t]) = 1
       /\ outcome[t] = "nokey" => sm_posts[t] = << >>

C25_Witness ==
    /\ pc = "ground"
    /\ outcome["course"] = "429"
    /\ results["course"] = Returned(EmptyResponse)
    /\ Len(sm_posts["course"]) = 1
    /\ outcome["memory"] = "200"
    /\ results["memory"].value.results # << >>

----------------------------------------------------------------------------
(* Properties of the request as a whole                                    *)

\* C26: a chat request for an email without a user record ends with the
\* request-level error and changes nothing: no message is persisted under a
\* thread, no frame is produced, no call is made, no background task is
\* scheduled; every request that is served is one of a registered user.
C26_UnknownUserRejected ==
    /\ [](pc = "rejected" =>
            /\ req = NoRequest
            /\ chat_messages = << >>
            /\ frames = << >>
            /\ background = << >>
            /\ llm_calls = << >>
            /\ search_log = {}
            /\ sm_writes = << >>
            /\ store = SeedStore)
    /\ [](req # NoRequest => req.user \in Users)
    /\ [][pc = "rejected" => UNCHANGED vars]_vars

C26_Witness ==
    /\ pc = "rejected"
    /\ chat_messages = << >>
    /\ frames = << >>

\* the steps of one request in the order of chat.py:168-378
StepOrder ==
    << "idle", "classify", "retrieve", "rewriting", "fanout", "ground",
       "compose", "stream", "finalize", "done" >>

\* the tokens of the completion that were sent
CompletionFrames ==
    SelectSeq(frames, LAMBDA f :
                 /\ f.event = "TOKEN"
                 /\ ~StartsWith(f.token, "\n\n[Neural Link RESET_v3]"))

\* C27: the steps of one request run one after the other: no search before
\* the classification has returned, no source card before every search has
\* ended and grounding was injected, no completion call and no token frame
\* before the prompt was built from the merged retrieval result; control
\* only moves forward through the steps.
C27_StepsSequential ==
    /\ [](LET Step(p) == CHOOSE i \in 1..Len(StepOrder) : StepOrder[i] = p
              Past(p) == pc \notin {"rejected"}
                         /\ (pc \in {"error", "disconnected"}
                             \/ Step(pc) > Step(p))
          IN  /\ (search_log # {} \/ search_query # Null) =>
                    /\ triage.outcome.kind # "none"
                    /\ q_type # Null
                    /\ Past("classify")
              /\ (final_sources # << >> \/ SourcesFrames # << >>) =>
                    /\ \A t \in TaskSet : outcome[t] \notin {"none", "pending"}
                    /\ Retrieved
                    /\ Past("compose")
              /\ prompt_args.built =>
                    /\ Past("compose")
                    /\ prompt_args.retrieved_chunks = c_data.course_context
                    /\ prompt_args.assistant_knowledge
                          = c_data.assistant_knowledge
                    /\ prompt_args.chat_assets = c_data.chat_assets
                    /\ prompt_args.memories = c_data.memories
                    /\ prompt_args.profile = c_data.profile
                    /\ prompt_messages # << >>
              /\ pc = "stream" => prompt_messages = build_prompt(prompt_args)
              /\ (\E i \in 1..Len(llm_calls) : llm_calls[i] = "chat") =>
                    prompt_args.built /\ prompt_messages # << >>
              /\ CompletionFrames # << >> =>
                    /\ prompt_args.built /\ prompt_messages # << >>
                    /\ llm_calls[Len(llm_calls)] \in {"chat", "memory"})
    /\ [][LET Step(p) == CHOOSE i \in 1..Len(StepOrder) : StepOrder[i] = p
          IN  /\ pc' # pc =>
                    /\ pc \in SeqToSet(StepOrder) \ {"done"}
                    /\ \/ pc' \in {"error", "disconnected", "rejected"}
                       \/ Step(pc') > Step(pc)
              /\ prompt_args.built =>
                    UNCHANGED <<LmsTables, threads, http_response, prompt_args, prompt_messages, c_data>>]_vars

C27_Witness ==
    /\ pc = "done"
    /\ SourcesFrames # << >>
    /\ Len(CompletionFrames) = Len(ResponseTokens)
    /\ c_data.course_context # << >>
    /\ c_data.memories # << >>
    /\ \E i \in 1..Len(llm_calls) : llm_calls[i] = "rewrite"

\* the documents the store accepted since the request began
Appended == SubSeq(store, Len(SeedStore) + 1, Len(store))

\* the memory records among them: the documents written with the context of
\* the exchange (memory_agent.py:134)
MemoryRecords ==
    SelectSeq(Appended, LAMBDA d : Get(d.metadata, "thread_id") = ThreadId)

\* C28: memory synthesis starts only after the stream has ended and the
\* assistant message was committed: an extraction call or a store write
\* implies that every token was sent, that finalize_stream was the one task
\* scheduled, and that the response is the last message of the thread; it
\* runs at most once and at most one memory record is created.
C28_SynthesisAfterPersist ==
    /\ [](Len(background) <= 1 /\ Len(MemoryCalls) <= 1)
    /\ []((MemoryCalls # << >> \/ sm_writes # << >>) =>
            /\ pc = "done"
            /\ Len(CompletionFrames) = Len(ResponseTokens)
            /\ frames[Len(frames)] = TokenFrame(ResponseTokens[Len(ResponseTokens)])
            /\ Len(background) = 1
            /\ chat_messages[Len(chat_messages)].role = "assistant"
            /\ chat_messages[Len(chat_messages)].content = full_response)
    /\ [](/\ Len(SelectSeq(sm_writes, LAMBDA w : w.title = "Memory")) <= 1
          /\ Len(MemoryRecords) <= 1)
    /\ [][(pc = "finalize" \/ pc = "done") => frames' = frames]_vars

C28_Witness ==
    /\ pc = "done"
    /\ Len(MemoryCalls) = 1
    /\ Len(MemoryRecords) = 1
    /\ chat_messages[Len(chat_messages)].content = Joined(ResponseTokens)

----------------------------------------------------------------------------
(* Properties of the material id of a source card                          *)

\* C29: the card of an announcement chunk always carries a material id: the
\* id a sibling chunk, a child attachment row or the announcement's own
\* attachment list yields, and the announcement's own id whenever none of
\* them yields one; it is never null.
C29_AnnouncementCardHasId ==
    \A i \in 1..Len(final_sources) :
       final_sources[i].source_type = "announcement" =>
          final_sources[i].material_id # Null

----------------------------------------------------------------------------
(* Properties of the profile write                                         *)

\* the add_document calls of the synthesis for the memory block and for the
\* profile
MemoryWrites == SelectSeq(sm_writes, LAMBDA w : w.title = "Memory")
ProfileWrites ==
    SelectSeq(sm_writes, LAMBDA w : Get(w.metadata, "type") = "user_profile")

\* the profile documents the store accepted since the request began
ProfileRecords ==
    SelectSeq(Appended, LAMBDA d : Get(d.metadata, "type") = "user_profile")

----------------------------------------------------------------------------
(* Properties of grounding failures                                        *)

\* grounding has run for the request in flight
Grounded ==
    \/ pc \in {"compose", "stream", "finalize", "done", "disconnected"}
    \/ pc = "error" /\ prompt_args.built

\* what retrieve_context returned as course_context
SearchedContext == Combine(results, search_query).course_context

\* the attachment rows of the primary document that have content
PrimaryAttachments ==
    {r \in AttachmentRows(materials, IdsToFetch(Primary.attachments.items)) :
        Truthy(r.content)}

\* C31: when the attachment list of the primary document cannot be parsed,
\* or the lookup of its attachment rows fails, grounding keeps the injected
\* primary document and adds nothing else: course_context is the primary
\* entry followed by the searched chunks, or, when the lookup succeeded,
\* every attachment entry once, the primary entry and the searched chunks;
\* grounding sends no frame and the request goes on to composition.
C31_AttachmentFailureSkipped ==
    /\ []((Grounded /\ PrimaryResolved) =>
            LET ctx == c_data.course_context
                k == Len(ctx) - Len(SearchedContext) - 1
            IN  /\ k \in {0, Cardinality(PrimaryAttachments)}
                /\ ~Primary.attachments.json_ok => k = 0
                /\ ctx[k + 1] = PrimaryEntry(Primary)
                /\ SubSeq(ctx, k + 2, Len(ctx)) = SearchedContext
                /\ \A r \in PrimaryAttachments :
                      k > 0 => \E i \in 1..k :
                                  ctx[i] = AttachmentEntry(Primary, r)
                /\ pc \in {"stream", "finalize", "done"} =>
                      /\ FallbackFrames = << >>
                      /\ prompt_args.retrieved_chunks = ctx)
    /\ [][(pc = "ground" /\ pc' # "error") =>
             (pc' = "compose" /\ frames' = frames)]_vars

C31_Witness ==
    /\ pc = "done"
    /\ PrimaryResolved
    /\ PrimaryAttachments # {}
    /\ c_data.course_context[1] = PrimaryEntry(Primary)
    /\ SearchedContext # << >>
    /\ FallbackFrames = << >>

----------------------------------------------------------------------------
(* Properties of the retrieval result                                      *)

\* the metadata of an output chunk: every key of either level, the value of
\* the document level where it has the key, and the document id
MergedMetadata(chunk_meta, item) ==
    [k \in DOMAIN chunk_meta \cup DOMAIN item.metadata \cup {"documentId"} |->
        IF k = "documentId" THEN item.documentId
        ELSE IF k \in DOMAIN item.metadata THEN item.metadata[k]
        ELSE chunk_meta[k]]

\* the chunks one item of a result list gives
ChunksOf(item) ==
    IF item.chunks # << >>
    THEN [j \in 1..Len(item.chunks) |->
            [content |-> item.chunks[j].content,
             metadata |-> MergedMetadata(item.chunks[j].metadata, item)]]
    ELSE << [content |-> item.content,
             metadata |-> MergedMetadata(<< >>, item)] >>

\* the chunks of the result of one search, item after item
Flat(t) ==
    Concat([i \in 1..Len(results[t].value.results) |->
              ChunksOf(results[t].value.results[i])])

\* C32: every partition of the retrieval result is the flattening of its
\* search result: a grouped document gives one chunk per chunk of the
\* document, whose metadata has the document-level value for every key the
\* document level defines and the chunk-level value for the others; a flat
\* item gives one chunk; every chunk is a {content, metadata} record.
C32_DocumentMetadataWins ==
    Retrieved =>
       /\ c_data.memories = Flat("memory")
       /\ c_data.assistant_knowledge = Flat("assistant")
       /\ c_data.chat_assets = Flat("chat")
       /\ c_data.profile = Flat("profile")
       /\ pc = "ground" =>
             c_data.course_context = Flat("course") \o Flat("focused")
       /\ \A i \in 1..Len(c_data.course_context) :
             DOMAIN c_data.course_context[i] = {"content", "metadata"}

C32_Witness ==
    /\ pc = "ground"
    /\ \E i \in 1..Len(c_data.course_context) :
          LET c == c_data.course_context[i]
          IN  /\ c.content = "base case"
              /\ c.metadata.documentId = "d1"
              /\ c.metadata.title = "Lecture 3"
              /\ c.metadata.page = "2"
    /\ \E i \in 1..Len(c_data.memories) :
          c_data.memories[i].metadata.documentId = "d3"

----------------------------------------------------------------------------
(* Properties of the rendered academic context                             *)

\* the chunks build_prompt was given
Given == prompt_args.retrieved_chunks

\* the source id of the i-th chunk and its document key
SourceIdOf(i) ==
    Or(Get(Given[i].metadata, "source_id"), Get(Given[i].metadata, "documentId"))

DocKeyOf(i) ==
    Or(SourceIdOf(i),
       Or(Get(Given[i].metadata, "file_name"), UniqueName(Given[i].metadata)))

\* the chunks of the analysed material, left out when its text came with
\* the request
LeftOut(i) ==
    /\ Truthy(prompt_args.attachment_text)
    /\ Truthy(prompt_args.material_id)
    /\ SourceIdOf(i) = prompt_args.material_id

\* the chunks that open a document, in list order
Openers ==
    SelectSeq([i \in 1..Len(Given) |-> i],
              LAMBDA i : /\ ~LeftOut(i)
                         /\ \A j \in 1..(i - 1) :
                               LeftOut(j) \/ DocKeyOf(j) # DocKeyOf(i))

\* the block of the document the i-th chunk opens: its header from the
\* chunk, its content from every chunk of the key in list order
DocumentBlock(i) ==
    LET meta == Given[i].metadata
        same == SelectSeq([j \in 1..Len(Given) |-> j],
                          LAMBDA j : ~LeftOut(j) /\ DocKeyOf(j) = DocKeyOf(i))
        link == Or(Get(meta, "source_link"), Get(meta, "url"))
    IN  "[" \o Upper(Or(Get(meta, "type"), "Institutional Material"))
        \o " | " \o Or(CourseName(meta), "General Workspace") \o "]\n"
        \o "DOCUMENT: " \o UniqueName(meta) \o "\n"
        \o (IF Truthy(link) THEN "LINK: " \o link \o "\n" ELSE "")
        \o "CONTENT: "
        \o JoinWith([k \in 1..Len(same) |-> Given[same[k]].content], "\n\n")

\* the block of the text that came with the request
CurrentDocumentBlock ==
    "[PRIMARY SOURCE | Analysis Workspace]\n"
    \o "DOCUMENT: Currently Viewed Document\n"
    \o "CONTENT: " \o prompt_args.attachment_text

FocusedCalls == {c \in search_log : c.task = "focused"}

Scoped == rc_material \notin {Null, ""}

\* the conditions a scope id asks for, by kind
ExpectedConditions ==
    {Cond("source_id", rc_material, FALSE)}
    \cup (IF DriveIdMatch(rc_material) # Null
          THEN {Cond("source_id", DriveIdMatch(rc_material), FALSE),
                Cond("source_id", "ann_att_" \o DriveIdMatch(rc_material), FALSE)}
          ELSE {})
    \cup (IF StartsWith(rc_material, "ann_") /\ Len(rc_material) > 4
          THEN {Cond("parent_announcement_id",
                     SubSeq(rc_material, 5, Len(rc_material)), FALSE)}
          ELSE {})

\* C34: the focused search is issued exactly when a material scope is
\* supplied, its filter is the user id AND an OR of the exact scope id, the
\* long-token id, its ann_att_ variant and the parent-announcement
\* back-reference of an ann_ scope, and course_context is the course chunks
\* followed by the focused chunks (course chunks only without a scope)
C34_FocusedSearchScoped ==
    /\ FocusedCalls # {} => Scoped
    /\ outcome["focused"] \notin {"none", "pending", "skipped"} <=> FocusedCalls # {}
    /\ (Retrieved /\ Scoped) => FocusedCalls # {}
    /\ \A c \in FocusedCalls :
         /\ Len(c.filters.AND) = 2
         /\ c.filters.AND[1] = Cond("user_id", req.user, FALSE)
         /\ c.filters.AND[2].key = "OR"
         /\ c.filters.AND[2].any[1] = Cond("source_id", rc_material, FALSE)
         /\ SeqToSet(c.filters.AND[2].any) = ExpectedConditions
    /\ \A c \in search_log :
         c.task = "course" => \A i \in 1..Len(c.filters.AND) :
                                 c.filters.AND[i].key \notin {"OR", "source_id"}
    /\ pc = "ground" =>
         /\ c_data.course_context = Flat("course") \o Flat("focused")
         /\ ~Scoped => /\ Flat("focused") = << >>
                       /\ c_data.course_context = Flat("course")

C34_Witness ==
    /\ pc = "ground"
    /\ rc_material = "ann_n1"
    /\ Flat("course") # << >>
    /\ Flat("focused") # << >>
    /\ \E c \in FocusedCalls :
         Cond("parent_announcement_id", "n1", FALSE)
             \in SeqToSet(c.filters.AND[2].any)
    /\ \E i \in 1..Len(Flat("focused")) :
         Get(Flat("focused")[i].metadata, "parent_announcement_id") = "n1"

\* ---------------------------------------------------------------------
\* Properties of the analysed document in the prompt
\* ---------------------------------------------------------------------

\* the chunks that belong to the document named by material_id: the
\* search chunks of that source and the entry grounding injected for it
OfFocusedDocument(i) ==
    \/ SourceIdOf(i) = prompt_args.material_id
    \/ /\ IsInjected(Given[i])
       /\ Get(Given[i].metadata, "id") = prompt_args.material_id

\* C37: when the request carries both attachment_text and a material_id,
\* every chunk of the document named by material_id, the injected primary
\* entry included, is left out of the DOCUMENT blocks, so that the document
\* is rendered once, as the CURRENT_DOCUMENT group
C37_FocusedDocumentOnce ==
    (Composed /\ Truthy(prompt_args.attachment_text)
              /\ Truthy(prompt_args.material_id)) =>
        /\ \A i \in 1..Len(Given) : OfFocusedDocument(i) => LeftOut(i)
        /\ \A k \in 1..Len(Openers) :
              ~OfFocusedDocument(Openers[k])

\* ---------------------------------------------------------------------
\* Properties of the persisted source list
\* ---------------------------------------------------------------------

AssistantMessages == SelectSeq(chat_messages, LAMBDA m : m.role = "assistant")

\* C39: the source list persisted with the assistant message is the list
\* of the SOURCES frame of the exchange (same cards, same order, same cap),
\* and no list is persisted when no SOURCES frame was sent
C39_PersistedSourcesAreBroadcast ==
    \A k \in 1..Len(AssistantMessages) :
       LET persisted == AssistantMessages[k].sources
       IN  IF SourcesFrames = << >>
           THEN persisted.is_null
           ELSE /\ ~persisted.is_null
                /\ persisted.cards = SourcesFrames[1].sources
                /\ Len(persisted.cards) <= SourceCap

\* ---------------------------------------------------------------------
\* Properties of the thread endpoints
\* ---------------------------------------------------------------------

\* the messages of a thread, in the order of the table
MessagesOf(rows, thread_id) ==
    SelectSeq(rows, LAMBDA m : m.thread_id = thread_id)

\* the step serves a chat_stream request of a registered user
ChatStreamServed ==
    /\ "op" \in DOMAIN req' /\ req'.op = "chat_stream"
    /\ http_response'.status = 200

\* C35: a user message is only appended to a thread the requesting user
\* owns; a thread of another user named by the form receives no message
\* and keeps its updated_at
C35_MessageOnlyInOwnThread ==
    [][ChatStreamServed =>
          /\ \A t \in threads' :
                MessagesOf(chat_messages', t.id) # MessagesOf(chat_messages, t.id)
                   => t.user_id = req'.user
          /\ \A t \in threads :
                t.user_id # req'.user =>
                   /\ t \in threads'
                   /\ MessagesOf(chat_messages', t.id)
                        = MessagesOf(chat_messages, t.id)]_vars

\* the step serves a get_thread_messages or a delete_thread request
ThreadCallServed(op) == "op" \in DOMAIN req' /\ req'.op = op

\* C36: get_thread_messages and delete_thread act only on a thread of the
\* requesting user; otherwise they answer with an error and leave threads
\* and messages as they were; a successful delete removes the thread and
\* every message of it and touches no other thread
C36_ReadDeleteOwnerOnly ==
    [][(ThreadCallServed("get_thread_messages")
          \/ ThreadCallServed("delete_thread")) =>
          LET own == \E t \in threads : /\ t.id = req'.thread_id
                                        /\ t.user_id = req'.user
          IN  /\ ~own => /\ http_response'.status \in {403, 404}
                         /\ http_response'.messages = << >>
                         /\ threads' = threads
                         /\ chat_messages' = chat_messages
              /\ (own /\ req'.op = "get_thread_messages") =>
                    /\ http_response'.status = 200
                    /\ Len(http_response'.messages)
                         = Len(MessagesOf(chat_messages, req'.thread_id))
                    /\ \A i \in 1..Len(http_response'.messages) :
                          http_response'.messages[i].content
                            = MessagesOf(chat_messages, req'.thread_id)[i].content
                    /\ threads' = threads
                    /\ chat_messages' = chat_messages
              /\ (own /\ req'.op = "delete_thread") =>
                    /\ http_response'.status = 200
                    /\ req'.thread_id \notin ThreadIds(threads')
                    /\ MessagesOf(chat_messages', req'.thread_id) = << >>
                    /\ \A t \in threads :
                          t.id # req'.thread_id =>
                             /\ t \in threads'
                             /\ MessagesOf(chat_messages', t.id)
                                  = MessagesOf(chat_messages, t.id)
                    /\ threads' \subseteq threads]_vars

C36_Witness ==
    /\ "op" \in DOMAIN req /\ req.op = "delete_thread"
    /\ req.user = UserA /\ req.thread_id = "t-a"
    /\ http_response = Response(200, "deleted", << >>)
    /\ "t-a" \notin ThreadIds(threads)
    /\ MessagesOf(chat_messages, "t-a") = << >>
    /\ "t-b" \in ThreadIds(threads)
    /\ Len(MessagesOf(chat_messages, "t-b")) >= 2

\* C38: the first frame of a response stream announces the thread id, and
\* the user message of the request is already committed in that thread:
\* the thread the form names when it exists, a new thread for "new" and
\* for an id that names no thread
C38_FirstFrameNamesThread ==
    /\ [](frames # << >> => frames[1].event = "THREAD_ID")
    /\ [][ChatStreamServed =>
            /\ frames' # << >>
            /\ frames'[1].event = "THREAD_ID"
            /\ LET tid == frames'[1].text
               IN  /\ tid \in ThreadIds(threads')
                   /\ chat_messages' =
                         Append(chat_messages,
                                [thread_id |-> tid, role |-> "user",
                                 content |-> req'.message,
                                 sources |-> [is_null |-> TRUE,
                                              cards |-> << >>]])
                   /\ IF req'.thread_id \in ThreadIds(threads)
                      THEN tid = req'.thread_id
                      ELSE /\ tid \notin ThreadIds(threads)
                           /\ tid # req'.thread_id
                           /\ MessagesOf(chat_messages, tid) = << >>
                           /\ \E t \in threads' :
                                 t.id = tid /\ t.user_id = req'.user]_vars

C38_Witness ==
    /\ "op" \in DOMAIN req /\ req.op = "chat_stream"
    /\ req.thread_id = "ghost"
    /\ frames # << >> /\ frames[1].event = "THREAD_ID"
    /\ frames[1].text \notin {"ghost", "t-a", "t-b"}
    /\ chat_messages # << >>
    /\ chat_messages[Len(chat_messages)].thread_id = frames[1].text
    /\ chat_messages[Len(chat_messages)].role = "user"

\* ---------------------------------------------------------------------
\* Properties of the course sync
\* ---------------------------------------------------------------------

\* the ids of the courses a user is enrolled in
EnrolledIn(rows, email) == {e.course_id : e \in {x \in rows : x.user_id = email}}

====
